---------------------------- MODULE Spec2Model ----------------------------
(***************************************************************************)
(* A model of the core of mini-SOAR: the alert normalizer                  *)
(* (src/lib/normalize.js), the two rule evaluators (src/lib/rulesEngine.js *)
(* and its conditions.all/any sibling), the expression evaluator and the   *)
(* playbook instance/template generators (src/pages/PlaybookBuilder.tsx).  *)
(*                                                                         *)
(* Every function of the core is pure and synchronous, so each one is an   *)
(* operator computed the way the code computes it, and each has one action *)
(* that calls it on an input drawn from a bounded set.  JavaScript values  *)
(* are tagged records.  A JavaScript string value is named by a TLA+       *)
(* string, and Chars gives its characters to the code that looks inside    *)
(* it; the texts the expression evaluator and the template generator work  *)
(* on are sequences of tokens and of characters.                           *)
(***************************************************************************)
EXTENDS Integers, Sequences, FiniteSets, TLC

VARIABLES pc, call, ret

vars == <<pc, call, ret>>

(***************************************************************************)
(* Bounds of the model.                                                    *)
(***************************************************************************)
\* the largest magnitude of a numeric event_count / count / events / threshold
MaxCount == 3
\* the largest number of rules in a rule file
MaxRules == 2
\* the largest number of actions in trueActions and in falseActions
MaxActions == 1

(***************************************************************************)
(* JavaScript values.  A number is sign, integer magnitude and one decimal *)
(* digit, so that -0.5 and -0 are values of the model; NaN is apart.       *)
(***************************************************************************)
Undef == [t |-> "undefined"]

Null == [t |-> "null"]

Bool(b) == [t |-> "boolean", v |-> b]

Num(n) == [t |-> "number", nan |-> FALSE, neg |-> (n < 0),
           v |-> (IF n < 0 THEN -n ELSE n), frac |-> 0]

\* -(n + d/10) for neg, n + d/10 otherwise
Frac(neg, n, d) == [t |-> "number", nan |-> FALSE, neg |-> neg, v |-> n, frac |-> d]

NaN == [t |-> "number", nan |-> TRUE, neg |-> FALSE, v |-> 0, frac |-> 0]

Str(s) == [t |-> "string", v |-> s]

Obj(f) == [t |-> "object", v |-> f]

\* the object literal {}
EmptyObj == Obj(<<>>)

IsStr(x) == x.t = "string"

IsObj(x) == x.t = "object"

\* ToBoolean: undefined, null, false, +0, -0, NaN and "" are falsy
Truthy(x) ==
    CASE x.t = "undefined" -> FALSE
      [] x.t = "null" -> FALSE
      [] x.t = "boolean" -> x.v
      [] x.t = "number" -> ~x.nan /\ (x.v # 0 \/ x.frac # 0)
      [] x.t = "string" -> x.v # ""
      [] OTHER -> TRUE

\* o[k] for an object o: undefined when the key is absent.  Reading a
\* property of a primitive other than null/undefined gives undefined too.
Get(o, k) == IF IsObj(o) /\ k \in DOMAIN o.v THEN o.v[k] ELSE Undef

\* a || b || ... || dflt
RECURSIVE FirstTruthy(_, _)
FirstTruthy(xs, dflt) ==
    IF xs = <<>> THEN dflt
    ELSE IF Truthy(Head(xs)) THEN Head(xs)
    ELSE FirstTruthy(Tail(xs), dflt)

(***************************************************************************)
(* Characters and the strings the model uses.                              *)
(***************************************************************************)
\* the string values of the model whose characters the code may look at
Strings ==
    {"", " ", "abc", "12abc", "7", "2", "2.5", "High", "Medium", "Low",
     "Brute Force", "Malware", "Force", "203.0.113.45", "PC-01", "type",
     "severity", "machine", "src_ip", "user", "event_count", "nope", "x",
     "raw", "result", "alert.type", "alert.severity", "alert.event_count",
     "alert.nope.x", "alert.raw.result.type", "alert.raw.nope", ": ", ":",
     "- ", "\"", "null", "${", "}", "alert.", "steps.", "from", "to",
     "name", "steps", "id", "params", "mapping", "next", "true_next",
     "false_next", "expression", "actions", "action", "input", "sender",
     "recipient", "subject", "urls", "attachment_hashes", "hashes", "ip",
     "message_id", "url", "message", "collect", "collect_normalize",
     "vt_hash", "vt_hash_lookup", "vt_url", "vt_url_reputation",
     "abuseipdb", "abuseipdb_lookup", "evaluate", "condition",
     "action_group", "high", "low", "mail.quarantine",
     "firewall.block_ip", "notify.email", "custom.webhook",
     "identity.suspend_user", "Untitled Playbook", "Phishing triage",
     "Urgent invoice", "Suspicious mail",
     "${steps.collect.attachment_hashes}", "${steps.collect.urls}",
     "${steps.collect.src_ip}", "${steps.collect.sender}",
     "${alert.alert_id}", "${alert.result.sender}",
     "${alert.result.recipient}", "${alert.result.urls}",
     "${alert.result.src_ip}", "${alert.result.attachment_hashes}",
     "${steps.vt_url.max_score >= 70}", "'", "v == '",
     "steps.collect.v == '", "steps.collect.urls != '' && v == '",
     "' && enabled == true", "true", "false", "[object Object]",
     "attacker@evil.com", "victim@corp.com", "soc@example.com",
     "http://evil.com/login", "44d88612fea8a8f36de82e1278abb02f"}

\* the characters of a string value
Chars(s) ==
    CASE s = "" -> <<>>
      [] s = " " -> <<" ">>
      [] s = "abc" -> <<"a", "b", "c">>
      [] s = "12abc" -> <<"1", "2", "a", "b", "c">>
      [] s = "7" -> <<"7">>
      [] s = "2" -> <<"2">>
      [] s = "2.5" -> <<"2", ".", "5">>
      [] s = "High" -> <<"H", "i", "g", "h">>
      [] s = "Medium" -> <<"M", "e", "d", "i", "u", "m">>
      [] s = "Low" -> <<"L", "o", "w">>
      [] s = "Brute Force" ->
           <<"B", "r", "u", "t", "e", " ", "F", "o", "r", "c", "e">>
      [] s = "Malware" -> <<"M", "a", "l", "w", "a", "r", "e">>
      [] s = "Force" -> <<"F", "o", "r", "c", "e">>
      [] s = "203.0.113.45" ->
           <<"2", "0", "3", ".", "0", ".", "1", "1", "3", ".", "4", "5">>
      [] s = "PC-01" -> <<"P", "C", "-", "0", "1">>
      [] s = "type" -> <<"t", "y", "p", "e">>
      [] s = "severity" -> <<"s", "e", "v", "e", "r", "i", "t", "y">>
      [] s = "machine" -> <<"m", "a", "c", "h", "i", "n", "e">>
      [] s = "src_ip" -> <<"s", "r", "c", "_", "i", "p">>
      [] s = "user" -> <<"u", "s", "e", "r">>
      [] s = "event_count" ->
           <<"e", "v", "e", "n", "t", "_", "c", "o", "u", "n", "t">>
      [] s = "nope" -> <<"n", "o", "p", "e">>
      [] s = "x" -> <<"x">>
      [] s = "raw" -> <<"r", "a", "w">>
      [] s = "result" -> <<"r", "e", "s", "u", "l", "t">>
      [] s = "alert.type" ->
           <<"a", "l", "e", "r", "t", ".", "t", "y", "p", "e">>
      [] s = "alert.severity" ->
           <<"a", "l", "e", "r", "t", ".", "s", "e", "v", "e", "r", "i", "t", "y">>
      [] s = "alert.event_count" ->
           <<"a", "l", "e", "r", "t", ".", "e", "v", "e", "n", "t", "_", "c", "o", "u", "n", "t">>
      [] s = "alert.nope.x" ->
           <<"a", "l", "e", "r", "t", ".", "n", "o", "p", "e", ".", "x">>
      [] s = "alert.raw.result.type" ->
           <<"a", "l", "e", "r", "t", ".", "r", "a", "w", ".", "r", "e", "s", "u", "l", "t", ".", "t", "y", "p", "e">>
      [] s = "alert.raw.nope" ->
           <<"a", "l", "e", "r", "t", ".", "r", "a", "w", ".", "n", "o", "p", "e">>
      [] s = ": " -> <<":", " ">>
      [] s = ":" -> <<":">>
      [] s = "- " -> <<"-", " ">>
      [] s = "\"" -> <<"\"">>
      [] s = "null" -> <<"n", "u", "l", "l">>
      [] s = "${" -> <<"$", "{">>
      [] s = "}" -> <<"}">>
      [] s = "alert." -> <<"a", "l", "e", "r", "t", ".">>
      [] s = "steps." -> <<"s", "t", "e", "p", "s", ".">>
      [] s = "from" -> <<"f", "r", "o", "m">>
      [] s = "to" -> <<"t", "o">>
      [] s = "name" -> <<"n", "a", "m", "e">>
      [] s = "steps" -> <<"s", "t", "e", "p", "s">>
      [] s = "id" -> <<"i", "d">>
      [] s = "params" -> <<"p", "a", "r", "a", "m", "s">>
      [] s = "mapping" -> <<"m", "a", "p", "p", "i", "n", "g">>
      [] s = "next" -> <<"n", "e", "x", "t">>
      [] s = "true_next" -> <<"t", "r", "u", "e", "_", "n", "e", "x", "t">>
      [] s = "false_next" ->
           <<"f", "a", "l", "s", "e", "_", "n", "e", "x", "t">>
      [] s = "expression" ->
           <<"e", "x", "p", "r", "e", "s", "s", "i", "o", "n">>
      [] s = "actions" -> <<"a", "c", "t", "i", "o", "n", "s">>
      [] s = "action" -> <<"a", "c", "t", "i", "o", "n">>
      [] s = "input" -> <<"i", "n", "p", "u", "t">>
      [] s = "sender" -> <<"s", "e", "n", "d", "e", "r">>
      [] s = "recipient" -> <<"r", "e", "c", "i", "p", "i", "e", "n", "t">>
      [] s = "subject" -> <<"s", "u", "b", "j", "e", "c", "t">>
      [] s = "urls" -> <<"u", "r", "l", "s">>
      [] s = "attachment_hashes" ->
           <<"a", "t", "t", "a", "c", "h", "m", "e", "n", "t", "_", "h", "a", "s", "h", "e", "s">>
      [] s = "hashes" -> <<"h", "a", "s", "h", "e", "s">>
      [] s = "ip" -> <<"i", "p">>
      [] s = "message_id" ->
           <<"m", "e", "s", "s", "a", "g", "e", "_", "i", "d">>
      [] s = "url" -> <<"u", "r", "l">>
      [] s = "message" -> <<"m", "e", "s", "s", "a", "g", "e">>
      [] s = "collect" -> <<"c", "o", "l", "l", "e", "c", "t">>
      [] s = "collect_normalize" ->
           <<"c", "o", "l", "l", "e", "c", "t", "_", "n", "o", "r", "m", "a", "l", "i", "z", "e">>
      [] s = "vt_hash" -> <<"v", "t", "_", "h", "a", "s", "h">>
      [] s = "vt_hash_lookup" ->
           <<"v", "t", "_", "h", "a", "s", "h", "_", "l", "o", "o", "k", "u", "p">>
      [] s = "vt_url" -> <<"v", "t", "_", "u", "r", "l">>
      [] s = "vt_url_reputation" ->
           <<"v", "t", "_", "u", "r", "l", "_", "r", "e", "p", "u", "t", "a", "t", "i", "o", "n">>
      [] s = "abuseipdb" -> <<"a", "b", "u", "s", "e", "i", "p", "d", "b">>
      [] s = "abuseipdb_lookup" ->
           <<"a", "b", "u", "s", "e", "i", "p", "d", "b", "_", "l", "o", "o", "k", "u", "p">>
      [] s = "evaluate" -> <<"e", "v", "a", "l", "u", "a", "t", "e">>
      [] s = "condition" -> <<"c", "o", "n", "d", "i", "t", "i", "o", "n">>
      [] s = "action_group" ->
           <<"a", "c", "t", "i", "o", "n", "_", "g", "r", "o", "u", "p">>
      [] s = "high" -> <<"h", "i", "g", "h">>
      [] s = "low" -> <<"l", "o", "w">>
      [] s = "mail.quarantine" ->
           <<"m", "a", "i", "l", ".", "q", "u", "a", "r", "a", "n", "t", "i", "n", "e">>
      [] s = "firewall.block_ip" ->
           <<"f", "i", "r", "e", "w", "a", "l", "l", ".", "b", "l", "o", "c", "k", "_", "i", "p">>
      [] s = "notify.email" ->
           <<"n", "o", "t", "i", "f", "y", ".", "e", "m", "a", "i", "l">>
      [] s = "custom.webhook" ->
           <<"c", "u", "s", "t", "o", "m", ".", "w", "e", "b", "h", "o", "o", "k">>
      [] s = "identity.suspend_user" ->
           <<"i", "d", "e", "n", "t", "i", "t", "y", ".", "s", "u", "s", "p", "e", "n", "d", "_", "u", "s", "e", "r">>
      [] s = "Untitled Playbook" ->
           <<"U", "n", "t", "i", "t", "l", "e", "d", " ", "P", "l", "a", "y", "b", "o", "o", "k">>
      [] s = "Phishing triage" ->
           <<"P", "h", "i", "s", "h", "i", "n", "g", " ", "t", "r", "i", "a", "g", "e">>
      [] s = "Urgent invoice" ->
           <<"U", "r", "g", "e", "n", "t", " ", "i", "n", "v", "o", "i", "c", "e">>
      [] s = "Suspicious mail" ->
           <<"S", "u", "s", "p", "i", "c", "i", "o", "u", "s", " ", "m", "a", "i", "l">>
      [] s = "${steps.collect.attachment_hashes}" ->
           <<"$", "{", "s", "t", "e", "p", "s", ".", "c", "o", "l", "l", "e", "c", "t", ".", "a", "t", "t", "a", "c", "h", "m", "e", "n", "t", "_", "h", "a", "s", "h", "e", "s", "}">>
      [] s = "${steps.collect.urls}" ->
           <<"$", "{", "s", "t", "e", "p", "s", ".", "c", "o", "l", "l", "e", "c", "t", ".", "u", "r", "l", "s", "}">>
      [] s = "${steps.collect.src_ip}" ->
           <<"$", "{", "s", "t", "e", "p", "s", ".", "c", "o", "l", "l", "e", "c", "t", ".", "s", "r", "c", "_", "i", "p", "}">>
      [] s = "${steps.collect.sender}" ->
           <<"$", "{", "s", "t", "e", "p", "s", ".", "c", "o", "l", "l", "e", "c", "t", ".", "s", "e", "n", "d", "e", "r", "}">>
      [] s = "${alert.alert_id}" ->
           <<"$", "{", "a", "l", "e", "r", "t", ".", "a", "l", "e", "r", "t", "_", "i", "d", "}">>
      [] s = "${alert.result.sender}" ->
           <<"$", "{", "a", "l", "e", "r", "t", ".", "r", "e", "s", "u", "l", "t", ".", "s", "e", "n", "d", "e", "r", "}">>
      [] s = "${alert.result.recipient}" ->
           <<"$", "{", "a", "l", "e", "r", "t", ".", "r", "e", "s", "u", "l", "t", ".", "r", "e", "c", "i", "p", "i", "e", "n", "t", "}">>
      [] s = "${alert.result.urls}" ->
           <<"$", "{", "a", "l", "e", "r", "t", ".", "r", "e", "s", "u", "l", "t", ".", "u", "r", "l", "s", "}">>
      [] s = "${alert.result.src_ip}" ->
           <<"$", "{", "a", "l", "e", "r", "t", ".", "r", "e", "s", "u", "l", "t", ".", "s", "r", "c", "_", "i", "p", "}">>
      [] s = "${alert.result.attachment_hashes}" ->
           <<"$", "{", "a", "l", "e", "r", "t", ".", "r", "e", "s", "u", "l", "t", ".", "a", "t", "t", "a", "c", "h", "m", "e", "n", "t", "_", "h", "a", "s", "h", "e", "s", "}">>
      [] s = "${steps.vt_url.max_score >= 70}" ->
           <<"$", "{", "s", "t", "e", "p", "s", ".", "v", "t", "_", "u", "r", "l", ".", "m", "a", "x", "_", "s", "c", "o", "r", "e", " ", ">", "=", " ", "7", "0", "}">>
      [] s = "'" -> <<"'">>
      [] s = "v == '" -> <<"v", " ", "=", "=", " ", "'">>
      [] s = "steps.collect.v == '" ->
           <<"s", "t", "e", "p", "s", ".", "c", "o", "l", "l", "e", "c", "t", ".", "v", " ", "=", "=", " ", "'">>
      [] s = "steps.collect.urls != '' && v == '" ->
           <<"s", "t", "e", "p", "s", ".", "c", "o", "l", "l", "e", "c", "t", ".", "u", "r", "l", "s", " ", "!", "=", " ", "'", "'", " ", "&", "&", " ", "v", " ", "=", "=", " ", "'">>
      [] s = "' && enabled == true" ->
           <<"'", " ", "&", "&", " ", "e", "n", "a", "b", "l", "e", "d", " ", "=", "=", " ", "t", "r", "u", "e">>
      [] s = "true" -> <<"t", "r", "u", "e">>
      [] s = "false" -> <<"f", "a", "l", "s", "e">>
      [] s = "[object Object]" ->
           <<"[", "o", "b", "j", "e", "c", "t", " ", "O", "b", "j", "e", "c", "t", "]">>
      [] s = "attacker@evil.com" ->
           <<"a", "t", "t", "a", "c", "k", "e", "r", "@", "e", "v", "i", "l", ".", "c", "o", "m">>
      [] s = "victim@corp.com" ->
           <<"v", "i", "c", "t", "i", "m", "@", "c", "o", "r", "p", ".", "c", "o", "m">>
      [] s = "soc@example.com" ->
           <<"s", "o", "c", "@", "e", "x", "a", "m", "p", "l", "e", ".", "c", "o", "m">>
      [] s = "http://evil.com/login" ->
           <<"h", "t", "t", "p", ":", "/", "/", "e", "v", "i", "l", ".", "c", "o", "m", "/", "l", "o", "g", "i", "n">>
      [] s = "44d88612fea8a8f36de82e1278abb02f" ->
           <<"4", "4", "d", "8", "8", "6", "1", "2", "f", "e", "a", "8", "a", "8", "f", "3", "6", "d", "e", "8", "2", "e", "1", "2", "7", "8", "a", "b", "b", "0", "2", "f">>

Digits == {"0", "1", "2", "3", "4", "5", "6", "7", "8", "9"}

DigitVal(c) ==
    CASE c = "0" -> 0 [] c = "1" -> 1 [] c = "2" -> 2 [] c = "3" -> 3
      [] c = "4" -> 4 [] c = "5" -> 5 [] c = "6" -> 6 [] c = "7" -> 7
      [] c = "8" -> 8 [] c = "9" -> 9

WhiteSpace == {" ", "\t", "\n"}

RECURSIVE SkipWhiteSpace(_)
SkipWhiteSpace(s) ==
    IF s # <<>> /\ Head(s) \in WhiteSpace THEN SkipWhiteSpace(Tail(s)) ELSE s

\* the longest prefix of s made of decimal digits
RECURSIVE DigitPrefix(_)
DigitPrefix(s) ==
    IF s # <<>> /\ Head(s) \in Digits
    THEN <<Head(s)>> \o DigitPrefix(Tail(s))
    ELSE <<>>

RECURSIVE DigitsValue(_, _)
DigitsValue(ds, acc) ==
    IF ds = <<>> THEN acc
    ELSE DigitsValue(Tail(ds), 10 * acc + DigitVal(Head(ds)))

\* parseInt(x, 10) converts x to a string first: a number loses its
\* fraction (and keeps its sign, so -0.5 gives -0); true, null, undefined
\* and objects give text that starts with no digit.  Of a string it reads
\* leading white space, an optional sign, then the longest run of digits,
\* and gives NaN when that run is empty; what follows the digits is ignored.
ParseInt(x) ==
    CASE x.t = "string" ->
           LET t == SkipWhiteSpace(Chars(x.v))
               neg == t # <<>> /\ Head(t) = "-"
               u == IF t # <<>> /\ Head(t) \in {"-", "+"} THEN Tail(t) ELSE t
               ds == DigitPrefix(u)
           IN  IF ds = <<>> THEN NaN
               ELSE Frac(neg, DigitsValue(ds, 0), 0)
      [] x.t = "number" -> IF x.nan THEN NaN ELSE Frac(x.neg, x.v, 0)
      [] OTHER -> NaN

\* x < 0 for a number x (false for NaN and for -0)
NumLtZero(x) == ~x.nan /\ x.neg /\ (x.v # 0 \/ x.frac # 0)

\* String.prototype.trim() === ""
TrimIsEmpty(s) == \A i \in 1..Len(s) : s[i] \in WhiteSpace

(***************************************************************************)
(* 4.1 Normalizer: normalizeSplunkAlert (src/lib/normalize.js).            *)
(***************************************************************************)
\* line 8: alertJson.result || alertJson
DataOf(alertJson) ==
    IF Truthy(Get(alertJson, "result")) THEN Get(alertJson, "result") ELSE alertJson

\* line 17, with the default 0 in place of 1
EventCountOf_default0(data) ==
    ParseInt(FirstTruthy(<<Get(data, "event_count"), Get(data, "count"),
                           Get(data, "events")>>, Num(0)))

\* line 17: parseInt(data.event_count || data.count || data.events || 1, 10)
EventCountOf(data) ==
    ParseInt(FirstTruthy(<<Get(data, "event_count"), Get(data, "count"),
                           Get(data, "events")>>, Num(1)))

\* lines 6-33.  Reading a property of null or undefined throws, and so
\* does severity.trim() when the truthy severity is not a string.
normalizeSplunkAlert(alertJson) ==
    IF alertJson.t \in {"null", "undefined"} THEN [threw |-> TRUE]
    ELSE
    LET data == DataOf(alertJson)
        \* line 13
        severity == FirstTruthy(<<Get(data, "severity"), Get(data, "priority"),
                                  Get(data, "level")>>, Str("Medium"))
        \* line 17
        event_count == EventCountOf(data)
    IN  IF ~IsStr(severity) THEN [threw |-> TRUE]
        ELSE [threw |-> FALSE,
              v |-> Obj([
                type |-> FirstTruthy(<<Get(data, "type"), Get(data, "alert_type"),
                                       Get(Get(data, "_raw"), "type")>>, Null),
                \* lines 28-30
                severity |-> IF TrimIsEmpty(Chars(severity.v)) THEN Str("Medium")
                             ELSE severity,
                machine |-> FirstTruthy(<<Get(data, "machine"), Get(data, "hostname"),
                                          Get(data, "host"), Get(data, "computer")>>, Null),
                src_ip |-> FirstTruthy(<<Get(data, "src_ip"), Get(data, "source_ip"),
                                         Get(data, "src"), Get(data, "source"),
                                         Get(data, "ip")>>, Null),
                user |-> FirstTruthy(<<Get(data, "user"), Get(data, "username"),
                                       Get(data, "account")>>, Null),
                \* lines 23-25
                event_count |-> IF event_count.nan \/ NumLtZero(event_count)
                                THEN Num(1) ELSE event_count,
                timestamp |-> FirstTruthy(<<Get(data, "timestamp"), Get(data, "_time"),
                                            Get(data, "time"), Get(data, "event_time")>>, Null),
                raw |-> alertJson])]

(***************************************************************************)
(* More of JavaScript: arrays, ===, parseFloat, String.includes, split.    *)
(***************************************************************************)
Arr(xs) == [t |-> "array", v |-> xs]

\* Array.isArray(x)
IsArr(x) == x.t = "array"

\* the key a value names in o[x]: only strings are used as keys here
PropertyKey(x) ==
    CASE x.t = "string" -> x.v
      [] x.t = "undefined" -> "undefined"
      [] x.t = "null" -> "null"

\* the string value with the characters cs; a text that is no string of
\* the model can only be a key no object has
StringOf(cs) ==
    IF \E s \in Strings : Chars(s) = cs
    THEN CHOOSE s \in Strings : Chars(s) = cs
    ELSE "?"

\* sign * (10 * magnitude), to compare two numbers that are not NaN
Tenths(x) == (IF x.neg THEN -1 ELSE 1) * (10 * x.v + x.frac)

\* a === b.  Two objects or arrays are equal only when they are the same
\* object; an alert's value and a rule's value never are.
StrictEq(a, b) ==
    IF a.t # b.t THEN FALSE
    ELSE CASE a.t = "number" -> ~a.nan /\ ~b.nan /\ Tenths(a) = Tenths(b)
           [] a.t \in {"string", "boolean"} -> a.v = b.v
           [] a.t \in {"undefined", "null"} -> TRUE
           [] OTHER -> FALSE

\* parseFloat(string): leading white space, an optional sign, digits and
\* an optional decimal part (kept to its first digit); NaN without digits
ParseFloatString(s) ==
    LET t == SkipWhiteSpace(s)
        neg == t # <<>> /\ Head(t) = "-"
        u == IF t # <<>> /\ Head(t) \in {"-", "+"} THEN Tail(t) ELSE t
        ds == DigitPrefix(u)
        rest == SubSeq(u, Len(ds) + 1, Len(u))
        hasFrac == Len(rest) >= 2 /\ rest[1] = "." /\ rest[2] \in Digits
    IN  IF ds = <<>> /\ ~hasFrac THEN NaN
        ELSE Frac(neg, DigitsValue(ds, 0), IF hasFrac THEN DigitVal(rest[2]) ELSE 0)

\* parseFloat(x): x is converted to a string first; the text of undefined,
\* null, a boolean or an object starts with no numeral
ParseFloat(x) ==
    CASE x.t = "string" -> ParseFloatString(Chars(x.v))
      [] x.t = "number" -> x
      [] OTHER -> NaN

\* a > b and a >= b on numbers: false when either is NaN
NumGt(a, b) == ~a.nan /\ ~b.nan /\ Tenths(a) > Tenths(b)

NumGe(a, b) == ~a.nan /\ ~b.nan /\ Tenths(a) >= Tenths(b)

\* s.includes(sub)
Includes(s, sub) ==
    \E i \in 0..(Len(s) - Len(sub)) : SubSeq(s, i + 1, i + Len(sub)) = sub

\* s.startsWith(p)
StartsWith(s, p) == Len(s) >= Len(p) /\ SubSeq(s, 1, Len(p)) = p

\* s.split('.')
RECURSIVE SplitDots(_, _)
SplitDots(s, cur) ==
    IF s = <<>> THEN <<cur>>
    ELSE IF Head(s) = "." THEN <<cur>> \o SplitDots(Tail(s), <<>>)
    ELSE SplitDots(Tail(s), Append(cur, Head(s)))

(***************************************************************************)
(* 4.2 Condition matcher of the conditions.all/any rule evaluator          *)
(* (src/unnamed/part_000).                                                 *)
(***************************************************************************)
\* lines 104-112: walk the dotted path through the alert (no path of the
\* model leads into an array)
RECURSIVE WalkPath(_, _)
WalkPath(value, parts) ==
    IF parts = <<>> THEN value
    ELSE LET part == StringOf(Head(parts))
         IN  IF Truthy(value) /\ IsObj(value) /\ part \in DOMAIN value.v
             THEN WalkPath(value.v[part], Tail(parts))
             ELSE Undef

\* lines 95-156
evaluateCondition(condition, normalized) ==
    LET field == FirstTruthy(<<Get(condition, "field")>>, Str(""))
        operator == FirstTruthy(<<Get(condition, "operator")>>, Str(""))
        value == Get(condition, "value")
        alertValue ==
            IF StartsWith(Chars(field.v), Chars("alert."))
            THEN WalkPath(normalized,
                          SplitDots(SubSeq(Chars(field.v), Len(Chars("alert.")) + 1,
                                           Len(Chars(field.v))), <<>>))
            ELSE Get(normalized, field.v)
    IN  CASE operator.v = "equals" -> StrictEq(alertValue, value)
          [] operator.v = "greater_than" ->
                NumGt(ParseFloat(alertValue), ParseFloat(value))
          [] operator.v = "less_than" ->
                NumGt(ParseFloat(value), ParseFloat(alertValue))
          [] operator.v = "greater_than_or_equal" ->
                NumGe(ParseFloat(alertValue), ParseFloat(value))
          [] operator.v = "less_than_or_equal" ->
                NumGe(ParseFloat(value), ParseFloat(alertValue))
          [] operator.v = "contains" ->
                /\ IsStr(alertValue) /\ IsStr(value)
                /\ Includes(Chars(alertValue.v), Chars(value.v))
          [] operator.v = "not_equals" -> ~StrictEq(alertValue, value)
          [] OTHER -> FALSE

\* lines 14-36: matched.  conditions.any is read only when conditions.all
\* is not an array.
MatchedConditions(rule, normalized) ==
    LET conditions == FirstTruthy(<<Get(rule, "conditions")>>, EmptyObj)
        all == Get(conditions, "all")
        any == Get(conditions, "any")
    IN  IF Truthy(all) /\ IsArr(all)
        THEN \A i \in 1..Len(all.v) : evaluateCondition(all.v[i], normalized)
        ELSE IF Truthy(any) /\ IsArr(any)
        THEN \E i \in 1..Len(any.v) : evaluateCondition(any.v[i], normalized)
        ELSE FALSE

(***************************************************************************)
(* 4.2 Condition matcher of the if/then rule evaluator                     *)
(* (src/lib/rulesEngine.js).                                               *)
(***************************************************************************)
\* lines 13-42 with the count test alertCount < threshold at line 39
MatchedIf_nonStrict(rule, normalized) ==
    LET conditions == FirstTruthy(<<Get(rule, "if")>>, EmptyObj)
        typeOk ==
            Get(conditions, "type") # Undef
                => StrictEq(Get(normalized, "type"), Get(conditions, "type"))
        hasSeverity ==
            Get(conditions, "severity_equals") # Undef
                \/ Get(conditions, "severity") # Undef
        severityCondition ==
            IF Get(conditions, "severity_equals") # Undef
            THEN Get(conditions, "severity_equals")
            ELSE Get(conditions, "severity")
        severityOk ==
            hasSeverity => StrictEq(Get(normalized, "severity"), severityCondition)
        hasCount ==
            Get(conditions, "event_count_greater_than") # Undef
                \/ Get(conditions, "count_greater_than") # Undef
        alertCount == FirstTruthy(<<Get(normalized, "event_count")>>, Num(0))
        threshold ==
            IF Get(conditions, "event_count_greater_than") # Undef
            THEN Get(conditions, "event_count_greater_than")
            ELSE Get(conditions, "count_greater_than")
        countOk == hasCount => ~NumGt(threshold, alertCount)
    IN  typeOk /\ severityOk /\ countOk

\* lines 13-42: matched
MatchedIf(rule, normalized) ==
    LET conditions == FirstTruthy(<<Get(rule, "if")>>, EmptyObj)
        typeOk ==
            Get(conditions, "type") # Undef
                => StrictEq(Get(normalized, "type"), Get(conditions, "type"))
        hasSeverity ==
            Get(conditions, "severity_equals") # Undef
                \/ Get(conditions, "severity") # Undef
        severityCondition ==
            IF Get(conditions, "severity_equals") # Undef
            THEN Get(conditions, "severity_equals")
            ELSE Get(conditions, "severity")
        severityOk ==
            hasSeverity => StrictEq(Get(normalized, "severity"), severityCondition)
        hasCount ==
            Get(conditions, "event_count_greater_than") # Undef
                \/ Get(conditions, "count_greater_than") # Undef
        alertCount == FirstTruthy(<<Get(normalized, "event_count")>>, Num(0))
        threshold ==
            IF Get(conditions, "event_count_greater_than") # Undef
            THEN Get(conditions, "event_count_greater_than")
            ELSE Get(conditions, "count_greater_than")
        \* alertCount <= threshold, both numbers in the model
        countOk == hasCount => ~NumGe(threshold, alertCount)
    IN  typeOk /\ severityOk /\ countOk

(***************************************************************************)
(* 4.3 Action logger.  A log line is a record: the 'Matched rule' line of  *)
(* a rule name, the 'Action executed' line of an action name with or       *)
(* without a parameter value, or the 'No rule matched.' line.              *)
(***************************************************************************)
MatchedLine(rule) == [line |-> "Matched rule", name |-> Get(rule, "name")]

ActionLine(actionName, paramValue) ==
    IF Truthy(paramValue)
    THEN [line |-> "Action executed", name |-> actionName, param |-> paramValue]
    ELSE [line |-> "Action executed", name |-> actionName]

NoRuleLine == [line |-> "No rule matched."]

\* Object.keys(o)[0]: the objects whose first key is read have one key
FirstKey(o) ==
    IF IsStr(o) THEN (IF o.v = "" THEN Undef ELSE Str("0"))
    ELSE IF DOMAIN o.v = {} THEN Undef
    ELSE Str(CHOOSE k \in DOMAIN o.v : TRUE)

\* o[k]: a character of a string o for the index "0", a property otherwise
Index(o, k) ==
    IF IsStr(o) THEN (IF k = "0" /\ o.v # "" THEN Str("x") ELSE Undef)
    ELSE Get(o, k)

\* part_000 lines 45-76: the log line of one action step
ActionLogConditions(actionStep, normalized) ==
    LET actionName ==
            IF IsStr(actionStep) THEN actionStep
            ELSE IF Truthy(Get(actionStep, "action")) THEN Get(actionStep, "action")
            ELSE FirstKey(actionStep)
        params ==
            IF IsStr(actionStep) THEN EmptyObj
            ELSE IF Truthy(Get(actionStep, "action"))
            THEN FirstTruthy(<<Get(actionStep, "params")>>, EmptyObj)
            ELSE FirstTruthy(
                    <<Get(Get(actionStep, PropertyKey(actionName)), "params")>>,
                    EmptyObj)
        paramValue ==
            IF StrictEq(actionName, Str("firewall.block_ip"))
               /\ Truthy(Get(params, "ip"))
            THEN FirstTruthy(<<Get(normalized, PropertyKey(Get(params, "ip")))>>,
                             Get(normalized, "src_ip"))
            ELSE IF /\ \/ StrictEq(actionName, Str("edr_isolate_host"))
                       \/ StrictEq(actionName, Str("isolate_host"))
                    /\ Truthy(Get(params, "host_field"))
            THEN FirstTruthy(<<Get(normalized, PropertyKey(Get(params, "host_field")))>>,
                             Get(normalized, "machine"))
            ELSE Null
    IN  ActionLine(actionName, paramValue)

\* part_000 lines 39-78 with the 'Matched rule' line pushed after the actions
RuleLogsConditions_matchedLast(rule, normalized) ==
    LET actions == Get(rule, "actions")
    IN  (IF Truthy(actions) /\ IsArr(actions)
         THEN [i \in 1..Len(actions.v) |->
                  ActionLogConditions(actions.v[i], normalized)]
         ELSE <<>>)
        \o <<MatchedLine(rule)>>

\* part_000 lines 39-78: what a matched rule adds to logs
RuleLogsConditions(rule, normalized) ==
    LET actions == Get(rule, "actions")
    IN  <<MatchedLine(rule)>>
        \o (IF Truthy(actions) /\ IsArr(actions)
            THEN [i \in 1..Len(actions.v) |->
                     ActionLogConditions(actions.v[i], normalized)]
            ELSE <<>>)

\* part_000 lines 13-79: the loop over rules, from rule i on
RECURSIVE RunRulesConditions(_, _, _, _, _)
RunRulesConditions(normalized, rules, i, logs, matches) ==
    IF i > Len(rules) THEN [logs |-> logs, matches |-> matches]
    ELSE IF MatchedConditions(rules[i], normalized)
    THEN RunRulesConditions(normalized, rules, i + 1,
                            logs \o RuleLogsConditions(rules[i], normalized),
                            Append(matches, rules[i]))
    ELSE RunRulesConditions(normalized, rules, i + 1, logs, matches)

\* part_000 lines 8-87
evaluateRulesConditions(normalized, rules) ==
    LET r == RunRulesConditions(normalized, rules, 1, <<>>, <<>>)
    IN  IF Len(r.matches) = 0
        THEN [logs |-> Append(r.logs, NoRuleLine), matches |-> r.matches]
        ELSE r

\* rulesEngine.js lines 54-82: the log line of one action step
ActionLogIf(actionStep, normalized) ==
    LET actionName ==
            IF Truthy(Index(actionStep, "action")) THEN Index(actionStep, "action")
            ELSE FirstKey(actionStep)
        params ==
            IF Truthy(Index(actionStep, "action"))
            THEN FirstTruthy(<<Index(actionStep, "params")>>, EmptyObj)
            ELSE FirstTruthy(
                    <<Get(Index(actionStep, PropertyKey(actionName)), "params")>>,
                    EmptyObj)
        paramValue ==
            IF StrictEq(actionName, Str("firewall_block_ip"))
               /\ Truthy(Get(params, "ip_field"))
            THEN FirstTruthy(<<Get(normalized, PropertyKey(Get(params, "ip_field")))>>,
                             Get(normalized, "src_ip"))
            ELSE IF /\ \/ StrictEq(actionName, Str("edr_isolate_host"))
                       \/ StrictEq(actionName, Str("isolate_host"))
                    /\ Truthy(Get(params, "host_field"))
            THEN FirstTruthy(<<Get(normalized, PropertyKey(Get(params, "host_field")))>>,
                             Get(normalized, "machine"))
            ELSE Null
    IN  ActionLine(actionName, paramValue)

\* rulesEngine.js lines 45-84: what a matched rule adds to logs
RuleLogsIf(rule, normalized) ==
    LET then == Get(rule, "then")
    IN  <<MatchedLine(rule)>>
        \o (IF Truthy(then) /\ IsArr(then)
            THEN [i \in 1..Len(then.v) |-> ActionLogIf(then.v[i], normalized)]
            ELSE <<>>)

\* rulesEngine.js lines 12-85: the loop over rules, from rule i on
RECURSIVE RunRulesIf(_, _, _, _, _)
RunRulesIf(normalized, rules, i, logs, matches) ==
    IF i > Len(rules) THEN [logs |-> logs, matches |-> matches]
    ELSE IF MatchedIf(rules[i], normalized)
    THEN RunRulesIf(normalized, rules, i + 1,
                    logs \o RuleLogsIf(rules[i], normalized),
                    Append(matches, rules[i]))
    ELSE RunRulesIf(normalized, rules, i + 1, logs, matches)

\* rulesEngine.js lines 7-93
evaluateRules(normalized, rules) ==
    LET r == RunRulesIf(normalized, rules, 1, <<>>, <<>>)
    IN  IF Len(r.matches) = 0
        THEN [logs |-> Append(r.logs, NoRuleLine), matches |-> r.matches]
        ELSE r

(***************************************************************************)
(* 4.5 Artifact generator: generateInstanceYaml                            *)
(* (src/pages/PlaybookBuilder.tsx).  The objects it builds keep the order  *)
(* in which their keys were set, which is the order they are emitted in.   *)
(***************************************************************************)
\* an object literal {k1: v1, k2: v2, ...}, given as <<k, v>> pairs
Ordered(ps) ==
    [t |-> "object",
     v |-> [k \in {ps[i][1] : i \in DOMAIN ps} |->
                ps[CHOOSE i \in DOMAIN ps : ps[i][1] = k][2]],
     keys |-> [i \in DOMAIN ps |-> ps[i][1]]]

\* the <<k, v>> pairs whose value is a non-empty string (if (x) m.k = x)
RECURSIVE TruthyPairs(_)
TruthyPairs(ps) ==
    IF ps = <<>> THEN <<>>
    ELSE IF Truthy(Head(ps)[2]) THEN <<Head(ps)>> \o TruthyPairs(Tail(ps))
    ELSE TruthyPairs(Tail(ps))

\* lines 855-892: the enrich steps of the enabled flags, in the fixed order
EnrichSteps(config) ==
    LET EnrichStep(id, type, key, from) ==
            Ordered(<< <<"id", Str(id)>>, <<"type", Str(type)>>,
                       <<"params", Ordered(<< <<key, Str(from)>> >>)>>,
                       <<"next", Str("evaluate")>> >>)
    IN
    (IF config.enrich.vt_hash
     THEN <<EnrichStep("vt_hash", "vt_hash_lookup", "hashes",
                       "${steps.collect.attachment_hashes}")>>
     ELSE <<>>)
    \o (IF config.enrich.vt_url
        THEN <<EnrichStep("vt_url", "vt_url_reputation", "urls",
                          "${steps.collect.urls}")>>
        ELSE <<>>)
    \o (IF config.enrich.abuseipdb_geoip
        THEN <<EnrichStep("abuseipdb", "abuseipdb_lookup", "ip",
                          "${steps.collect.src_ip}")>>
        ELSE <<>>)

\* lines 896-900 with collect.next the first enrich id only
CollectNext_firstOnly(enrichStepIds) ==
    IF Len(enrichStepIds) > 0 THEN enrichStepIds[1] ELSE Str("evaluate")

\* lines 896-900: collect.next
CollectNext(enrichStepIds) ==
    IF Len(enrichStepIds) > 0 THEN Arr(enrichStepIds) ELSE Str("evaluate")

\* lines 846-852, with next as set at lines 896-900
CollectStep(config) ==
    LET \* lines 838-844
        mapping == TruthyPairs(<<
            <<"sender", Str(config.collect.sender)>>,
            <<"recipient", Str(config.collect.recipient)>>,
            <<"subject", Str(config.collect.subject)>>,
            <<"urls", Str(config.collect.urls)>>,
            <<"attachment_hashes", Str(config.collect.attachment_hashes)>>,
            <<"src_ip", Str(config.collect.src_ip)>> >>)
        \* lines 865, 878, 891
        enrichStepIds == [i \in 1..Len(EnrichSteps(config)) |->
                             Get(EnrichSteps(config)[i], "id")]
    IN  Ordered(<< <<"id", Str("collect")>>, <<"type", Str("collect_normalize")>>,
                   <<"params", IF Len(mapping) > 0
                               THEN Ordered(<< <<"mapping", Ordered(mapping)>> >>)
                               ELSE Ordered(<<>>)>>,
                   <<"next", CollectNext(enrichStepIds)>> >>)

\* lines 903-911
EvaluateStep(config) ==
    Ordered(<< <<"id", Str("evaluate")>>, <<"type", Str("condition")>>,
               <<"params", Ordered(<< <<"expression",
                                        Str(config.condition.expression)>> >>)>>,
               <<"true_next", Str("high")>>, <<"false_next", Str("low")>> >>)

\* lines 916-949 with the builder-supplied input map for every action
ActionObj_inputFromBuilder(action) ==
    Ordered(<< <<"action", Str(action.action)>>,
               <<"input",
                 Ordered([i \in 1..Len(action.input) |->
                             <<action.input[i][1], Str(action.input[i][2])>>])>> >>)

\* lines 916-949 (and 963-996): one action of an action group.  The pairs
\* of a builder-supplied input map are Object.assign'ed in key order.
ActionObj(action) ==
    Ordered(<< <<"action", Str(action.action)>>,
               <<"input",
                 CASE action.action = "mail.quarantine" ->
                        Ordered(<< <<"message_id", Str("${alert.alert_id}")>> >>)
                   [] action.action = "identity.suspend_user" ->
                        Ordered(<< <<"user", Str("${steps.collect.sender}")>> >>)
                   [] action.action = "firewall.block_ip" ->
                        Ordered(<< <<"ip", Str("${steps.collect.src_ip}")>> >>)
                   [] OTHER ->
                        Ordered([i \in 1..Len(action.input) |->
                                    <<action.input[i][1],
                                      Str(action.input[i][2])>>])>> >>)

\* lines 952-959 and 999-1006
ActionGroup(id, actions) ==
    Ordered(<< <<"id", Str(id)>>, <<"type", Str("action_group")>>,
               <<"params", Ordered(<< <<"actions",
                    Arr([i \in 1..Len(actions) |-> ActionObj(actions[i])])>> >>)>> >>)

\* lines 834-1006 with the low action group left out
InstanceSteps_noLow(config) ==
    <<CollectStep(config)>> \o EnrichSteps(config) \o <<EvaluateStep(config)>>
    \o <<ActionGroup("high", config.actions.trueActions)>>

\* lines 834-1006: steps
InstanceSteps(config) ==
    <<CollectStep(config)>> \o EnrichSteps(config) \o <<EvaluateStep(config)>>
    \o <<ActionGroup("high", config.actions.trueActions),
         ActionGroup("low", config.actions.falseActions)>>

\* lines 1009-1012: yamlStructure
InstanceStructure(config) ==
    Ordered(<< <<"name", Str(IF config.name # "" THEN config.name
                              ELSE "Untitled Playbook")>>,
               <<"steps", Arr(InstanceSteps(config))>> >>)

(***************************************************************************)
(* 4.5 Serialization: convertToYaml (lines 1018-1086).                     *)
(*                                                                         *)
(* A text is its sequence of lines, each ended by a line break.  A line is *)
(* its number of leading blanks and the pieces of text that follow: keys,  *)
(* values and punctuation, each a string of the table Chars.  No string    *)
(* value of the model holds a line break or a double quote.                *)
(***************************************************************************)
Line(indent, body) == [indent |-> indent, body |-> body]

\* the characters of some pieces, one after the other
RECURSIVE Concat(_)
Concat(ps) == IF ps = <<>> THEN <<>> ELSE Chars(Head(ps)) \o Concat(Tail(ps))

\* the characters of a line, its line break not included
FlatLine(line) == [i \in 1..line.indent |-> " "] \o Concat(line.body)

\* the characters of a text
RECURSIVE Flat(_)
Flat(text) ==
    IF text = <<>> THEN <<>>
    ELSE FlatLine(Head(text)) \o <<"\n">> \o Flat(Tail(text))

RECURSIVE convertToYaml(_, _)
RECURSIVE ItemsToYaml(_, _)
RECURSIVE KeysToYaml(_, _, _)

\* lines 1028-1044: the items of an array
ItemsToYaml(items, indent) ==
    IF items = <<>> THEN <<>>
    ELSE LET item == Head(items)
             lines == convertToYaml(item, indent + 1)
             \* line 1034: line.replace(/^  +/, ''), two or more leading
             \* blanks removed
             StripIndent(line) ==
                 IF line.indent >= 2 THEN Line(0, line.body) ELSE line
         IN  (IF item.t \in {"object", "array"}
              THEN <<Line(2 * indent, <<"- ">> \o StripIndent(lines[1]).body)>>
                   \o [i \in 1..(Len(lines) - 1) |->
                          LET l == StripIndent(lines[i + 1])
                          IN  Line(2 * indent + 2 + l.indent, l.body)]
              ELSE <<Line(2 * indent, <<"- ", item.v>>)>>)
             \o ItemsToYaml(Tail(items), indent)

\* lines 1046-1080: the keys of an object, in insertion order
KeysToYaml(obj, keys, indent) ==
    IF keys = <<>> THEN <<>>
    ELSE LET key == Head(keys)
             value == obj.v[key]
             includes(sub) == Includes(Chars(value.v), sub)
             \* lines 1056-1075: the pieces of "key: value" for a string
             stringEntry ==
                 IF includes(<<"$", "{">>) /\ ~includes(<<"\n">>)
                 THEN <<key, ": ", "\"", value.v, "\"">>
                 ELSE IF \E c \in {":", "|", "&", "*", "#"} : includes(<<c>>)
                 THEN <<key, ": ", "\"", value.v, "\"">>
                 ELSE <<key, ": ", value.v>>
         IN  (IF value.t \in {"null", "undefined"}
              THEN <<Line(2 * indent, <<key, ": ", "null">>)>>
              ELSE IF value.t \in {"array", "object"}
              THEN <<Line(2 * indent, <<key, ":">>)>>
                   \o convertToYaml(value, indent + 1)
              ELSE <<Line(2 * indent, stringEntry)>>)
             \o KeysToYaml(obj, Tail(keys), indent)

\* lines 1018-1086
convertToYaml(obj, indent) ==
    IF obj.t \in {"null", "undefined"} THEN <<>>
    ELSE IF IsArr(obj) THEN ItemsToYaml(obj.v, indent)
    ELSE IF IsObj(obj) THEN KeysToYaml(obj, obj.keys, indent)
    ELSE <<Line(0, <<obj.v>>)>>

\* lines 833-1016
generateInstanceYaml(config) == convertToYaml(InstanceStructure(config), 0)

(***************************************************************************)
(* 4.5 Anonymization: generateTemplateYaml (lines 1092-1242).              *)
(*                                                                         *)
(* The patterns are matched on the characters of a piece.  The values of   *)
(* the model are such that a pattern matches a whole piece or nothing of   *)
(* it; what precedes and follows a match is read on the characters of the  *)
(* whole text.                                                             *)
(***************************************************************************)
\* [A-Za-z]
Letters ==
    {"a", "b", "c", "d", "e", "f", "g", "h", "i", "j", "k", "l", "m",
     "n", "o", "p", "q", "r", "s", "t", "u", "v", "w", "x", "y", "z",
     "A", "B", "C", "D", "E", "F", "G", "H", "I", "J", "K", "L", "M",
     "N", "O", "P", "Q", "R", "S", "T", "U", "V", "W", "X", "Y", "Z"}

\* s.toLowerCase()
ToLowerCase(cs) ==
    LET LowerCase == <<"a", "b", "c", "d", "e", "f", "g", "h", "i", "j", "k", "l", "m",
                       "n", "o", "p", "q", "r", "s", "t", "u", "v", "w", "x", "y", "z">>
        UpperCase == <<"A", "B", "C", "D", "E", "F", "G", "H", "I", "J", "K", "L", "M",
                       "N", "O", "P", "Q", "R", "S", "T", "U", "V", "W", "X", "Y", "Z">>
    IN  [i \in 1..Len(cs) |->
            IF \E j \in 1..26 : UpperCase[j] = cs[i]
            THEN LowerCase[CHOOSE j \in 1..26 : UpperCase[j] = cs[i]]
            ELSE cs[i]]

AllIn(cs, from, to, S) == \A i \in from..to : cs[i] \in S

\* line 1106: /\b[A-Za-z0-9._%+-]+@[A-Za-z0-9.-]+\.[A-Za-z]{2,}\b/ is all of cs
EmailMatch(cs) ==
    LET WordChars == Letters \cup Digits \cup {"_"}
    IN
    /\ cs # <<>> /\ cs[1] \in WordChars
    /\ \E at \in {i \in 1..Len(cs) : cs[i] = "@"},
          dot \in {i \in 1..Len(cs) : cs[i] = "."} :
          /\ at >= 2
          /\ AllIn(cs, 1, at - 1, WordChars \cup {".", "%", "+", "-"})
          /\ at + 1 <= dot - 1
          /\ AllIn(cs, at + 1, dot - 1, Letters \cup Digits \cup {".", "-"})
          /\ Len(cs) - dot >= 2
          /\ AllIn(cs, dot + 1, Len(cs), Letters)

\* line 1124: the pattern https?:// followed by one or more characters that
\* are no white space and no quote is all of cs (no string of the model
\* holds a backquote)
UrlMatch(cs) ==
    LET http == <<"h", "t", "t", "p", ":", "/", "/">>
        https == <<"h", "t", "t", "p", "s", ":", "/", "/">>
        rest(n) == /\ Len(cs) > n
                   /\ AllIn(cs, n + 1, Len(cs),
                            {cs[i] : i \in 1..Len(cs)} \ {" ", "\n", "\"", "'"})
    IN  \/ StartsWith(cs, http) /\ rest(7)
        \/ StartsWith(cs, https) /\ rest(8)

\* line 1148: /\b\d{1,3}(\.\d{1,3}){3}\b/ is all of cs
IpMatch(cs) ==
    LET dots == {i \in 1..Len(cs) : cs[i] = "."}
        ends == dots \cup {Len(cs) + 1}
    IN  /\ Cardinality(dots) = 3
        /\ \A i \in 1..Len(cs) : i \notin dots => cs[i] \in Digits
        /\ \A i \in dots \cup {0} :
              \E j \in ends :
                  /\ j - i - 1 \in 1..3
                  /\ \A k \in ends : k > i => j <= k

\* line 1172: /\b[A-Fa-f0-9]{32,64}\b/ is all of cs
HashMatch(cs) ==
    /\ Len(cs) \in 32..64
    /\ AllIn(cs, 1, Len(cs),
             Digits \cup {"a", "b", "c", "d", "e", "f", "A", "B", "C", "D", "E", "F"})

\* s.lastIndexOf(sub), counted from 0; -1 when sub is not in s
LastIndexOf(s, sub) ==
    LET at == {i \in 0..(Len(s) - Len(sub)) : SubSeq(s, i + 1, i + Len(sub)) = sub}
    IN  IF at = {} THEN -1 ELSE CHOOSE x \in at : \A y \in at : y <= x

\* the number of characters of the text before piece p of line l
RECURSIVE Offset(_, _, _)
Offset(text, l, p) ==
    IF l > 1 THEN Len(FlatLine(text[1])) + 1 + Offset(Tail(text), l - 1, p)
    ELSE text[1].indent + Len(Concat(SubSeq(text[1].body, 1, p - 1)))

\* lines 1106, 1124, 1148, 1172: which pattern is all of cs
Matches(kind, cs) ==
    CASE kind = "email" -> EmailMatch(cs)
      [] kind = "url" -> UrlMatch(cs)
      [] kind = "ip" -> IpMatch(cs)
      [] kind = "hash" -> HashMatch(cs)

\* lines 1107-1121, 1125-1145, 1149-1169, 1173-1193: what the replacer of
\* a pattern returns for a match, given the 20 characters before it and
\* the 10 after it
Placeholder(kind, match, before, after) ==
    LET beforeMatch == ToLowerCase(before)
        \* lines 1132-1143: the match is taken to be inside an expression
        \* or a path
        insideExpression ==
            \/ /\ LastIndexOf(before, Chars("${")) > LastIndexOf(before, Chars("}"))
               /\ ~Includes(after, Chars("}"))
            \/ Includes(before, Chars("steps."))
            \/ Includes(before, Chars("alert."))
    IN  CASE kind = "email" ->
               IF Includes(beforeMatch, Chars("sender"))
                  \/ Includes(beforeMatch, Chars("from"))
               THEN "${alert.result.sender}"
               ELSE IF Includes(beforeMatch, Chars("recipient"))
                       \/ Includes(beforeMatch, Chars("to"))
               THEN "${alert.result.recipient}"
               ELSE "${alert.result.sender}"
          [] kind = "url" ->
               IF insideExpression THEN match ELSE "${alert.result.urls}"
          [] kind = "ip" ->
               IF insideExpression THEN match ELSE "${alert.result.src_ip}"
          [] kind = "hash" ->
               IF insideExpression THEN match
               ELSE "${alert.result.attachment_hashes}"

\* text.replace(pattern, replacer): each piece the pattern matches becomes
\* what the replacer makes of the characters around it in the text
ReplaceMatches(text, kind) ==
    LET str == Flat(text)
        \* str.substring(Math.max(0, offset - 20), offset)
        BeforeMatch(offset) ==
            SubSeq(str, (IF offset - 20 > 0 THEN offset - 20 ELSE 0) + 1, offset)
        \* str.substring(end, Math.min(str.length, end + 10))
        AfterMatch(end) ==
            SubSeq(str, end + 1, IF end + 10 < Len(str) THEN end + 10 ELSE Len(str))
    IN  [l \in 1..Len(text) |->
            Line(text[l].indent,
                 [p \in 1..Len(text[l].body) |->
                     LET piece == text[l].body[p]
                         offset == Offset(text, l, p)
                     IN  IF Matches(kind, Chars(piece))
                         THEN Placeholder(kind, piece, BeforeMatch(offset),
                                          AfterMatch(offset + Len(Chars(piece))))
                         ELSE piece])]

\* line 1206: /^(\s+)(sender|...|ip):\s+(.+)$/ matches the line
MappingLine(line) ==
    /\ line.indent >= 1
    /\ Len(line.body) >= 3
    /\ line.body[1] \in {"sender", "recipient", "subject", "text", "comment",
                          "message", "description", "summary", "hashes", "urls",
                          "ip"}
    /\ line.body[2] = ": "
    /\ Concat(SubSeq(line.body, 3, Len(line.body))) # <<>>

\* s.includes('${') || s.includes('alert.') || s.includes('steps.')
IsExpression(cs) ==
    \/ Includes(cs, Chars("${"))
    \/ Includes(cs, Chars("alert."))
    \/ Includes(cs, Chars("steps."))

\* lines 1224-1236: replace(/"([^"]*)"/g, ...) from piece p on
RECURSIVE BlankQuoted(_, _)
BlankQuoted(body, p) ==
    IF p > Len(body) THEN <<>>
    ELSE IF body[p] = "\"" /\ \E q \in (p + 1)..Len(body) : body[q] = "\""
    THEN LET q == CHOOSE q \in (p + 1)..Len(body) :
                     /\ body[q] = "\""
                     /\ \A r \in (p + 1)..(q - 1) : body[r] # "\""
             content == Concat(SubSeq(body, p + 1, q - 1))
         IN  (IF IsExpression(content) THEN SubSeq(body, p, q) ELSE <<"\"", "\"">>)
             \o BlankQuoted(body, q + 1)
    ELSE <<body[p]>> \o BlankQuoted(body, p + 1)

\* lines 1198-1237: one line of the text
ProcessLine(line) ==
    IF IsExpression(FlatLine(line)) THEN line
    ELSE IF MappingLine(line)
    THEN Line(line.indent, <<line.body[1], ": ", "\"", "\"">>)
    ELSE Line(line.indent, BlankQuoted(line.body, 1))

\* a string value given as a text, where Str gives it as one atom
Text(lines) == [t |-> "text", lines |-> lines]

\* line 1099: String(x) of a value that is no string, as a text of one
\* line (which no line break ends; no pattern reads past the end of it).
\* The numbers of the model are the natural numbers below 10 and its
\* arrays hold at most one string.
StringText(x) ==
    LET s == CASE x.t = "boolean" -> (IF x.v THEN "true" ELSE "false")
               [] x.t = "number" -> StringOf(<<CHOOSE d \in Digits : DigitVal(d) = x.v>>)
               [] x.t = "object" -> "[object Object]"
               [] x.t = "array" -> (IF x.v = <<>> THEN "" ELSE x.v[1].v)
               [] x.t \in {"null", "undefined"} -> x.t
    IN  IF s = "" THEN <<>> ELSE <<Line(0, <<s>>)>>

\* lines 1092-1242
generateTemplateYaml(instanceYaml) ==
    LET \* line 1094: !instanceYaml
        falsy == IF instanceYaml.t = "text" THEN instanceYaml.lines = <<>>
                 ELSE ~Truthy(instanceYaml)
        \* line 1099
        templateYaml == IF instanceYaml.t = "text" THEN instanceYaml.lines
                        ELSE StringText(instanceYaml)
    IN
    IF falsy \/ TrimIsEmpty(Flat(templateYaml)) THEN <<>>
    ELSE LET emails == ReplaceMatches(templateYaml, "email")
             urls == ReplaceMatches(emails, "url")
             ips == ReplaceMatches(urls, "ip")
             hashes == ReplaceMatches(ips, "hash")
         IN  [l \in 1..Len(hashes) |-> ProcessLine(hashes[l])]

(***************************************************************************)
(* 4.4 Expression evaluator: evaluateExpressionUnified                     *)
(* (src/pages/PlaybookBuilder.tsx lines 11-121).                           *)
(*                                                                         *)
(* The expression text is a sequence of tokens, each a maximal lexical     *)
(* unit of the text: the symbols, the words (\w+, numerals included),     *)
(* quoted string literals and white space.  No two word tokens are         *)
(* adjacent, so that the word boundaries of the text are the token         *)
(* boundaries and the regular expressions of the code can be read on       *)
(* tokens.                                                                 *)
(***************************************************************************)
Sym(s) == [k |-> "sym", s |-> s]

Word(s) == [k |-> "word", s |-> s]

NumTok(n) == [k |-> "num", n |-> n]

StrTok(s) == [k |-> "str", s |-> s]

Ws(s) == [k |-> "ws", s |-> s]

\* a token made of \w characters
IsWordTok(t) == t.k \in {"word", "num"}

\* a token made of [\w.] characters
IsPathTok(t) == IsWordTok(t) \/ t = Sym(".")

\* line 19: expression.trim()
Trim(e) ==
    LET text == {i \in 1..Len(e) : e[i].k # "ws"}
    IN  IF text = {} THEN <<>>
        ELSE SubSeq(e, CHOOSE i \in text : \A j \in text : i <= j,
                       CHOOSE i \in text : \A j \in text : j <= i)

\* lines 22-25: step 1.  /^\$\{(.+)\}$/ matches when the text between
\* the wrapper holds no line break, which the dot does not match.
StripWrapper(e) ==
    LET wrappedMatch ==
            /\ Len(e) >= 3 /\ e[1] = Sym("${") /\ e[Len(e)] = Sym("}")
            /\ \A i \in 2..(Len(e) - 1) : e[i] # Ws("\n")
    IN  IF wrappedMatch THEN SubSeq(e, 2, Len(e) - 1) ELSE e

\* \bsteps\. at token i
StepsDotAt(e, i) ==
    /\ i + 1 <= Len(e)
    /\ e[i] = Word("steps")
    /\ (i = 1 \/ ~IsWordTok(e[i - 1]))
    /\ e[i + 1] = Sym(".")

\* lines 28 and 96: the tokens /\bsteps\.\w+/ matches at
BareStepsMatches(e) ==
    {i \in 1..Len(e) :
        StepsDotAt(e, i) /\ i + 2 <= Len(e) /\ IsWordTok(e[i + 2])}

\* the last token of the longest run of [\w.] tokens that starts at j
RECURSIVE RunEnd(_, _)
RunEnd(e, j) ==
    IF j + 1 <= Len(e) /\ IsPathTok(e[j + 1]) THEN RunEnd(e, j + 1) ELSE j

\* line 32: replace(/\bsteps\.([\w.]+)/g, '${steps.$1}') from token i on
RECURSIVE WrapBareFrom(_, _)
WrapBareFrom(e, i) ==
    IF i > Len(e) THEN <<>>
    ELSE IF StepsDotAt(e, i) /\ i + 2 <= Len(e) /\ IsPathTok(e[i + 2])
    THEN LET end == RunEnd(e, i + 2)
         IN  <<Sym("${")>> \o SubSeq(e, i, end) \o <<Sym("}")>>
             \o WrapBareFrom(e, end + 1)
    ELSE <<e[i]>> \o WrapBareFrom(e, i + 1)

\* lines 28-33: step 2
NormalizeBare(e) ==
    LET \* line 29: /\$\{steps\./
        hasWrapped ==
            \E i \in 1..(Len(e) - 2) :
                e[i] = Sym("${") /\ e[i + 1] = Word("steps") /\ e[i + 2] = Sym(".")
    IN  IF BareStepsMatches(e) # {} /\ ~hasWrapped THEN WrapBareFrom(e, 1)
        ELSE e

\* lines 36 and 84: /\$\{steps\.([\w.]+)\}/ matches at token i
VarAt(e, i) ==
    /\ i + 4 <= Len(e)
    /\ e[i] = Sym("${") /\ e[i + 1] = Word("steps") /\ e[i + 2] = Sym(".")
    /\ IsPathTok(e[i + 3])
    /\ RunEnd(e, i + 3) + 1 <= Len(e)
    /\ e[RunEnd(e, i + 3) + 1] = Sym("}")

\* line 42: path.split('.') for the path tokens ts; cur is the part so far
RECURSIVE SplitPath(_, _)
SplitPath(ts, cur) ==
    IF ts = <<>> THEN <<cur>>
    ELSE IF Head(ts) = Sym(".") THEN <<cur>> \o SplitPath(Tail(ts), "")
    ELSE SplitPath(Tail(ts), Head(ts).s)

\* lines 43-65: the value at the path, or missing at the first absent part
RECURSIVE Navigate(_, _)
Navigate(value, parts) ==
    IF parts = <<>> THEN [found |-> TRUE, v |-> value]
    ELSE IF Truthy(value) /\ IsObj(value) /\ Head(parts) \in DOMAIN value.v
    THEN Navigate(value.v[Head(parts)], Tail(parts))
    ELSE [found |-> FALSE]

\* lines 70-80: the text a found value is replaced by
ValueText(value) ==
    CASE value.t = "boolean" -> Word(IF value.v THEN "true" ELSE "false")
      [] value.t = "number" /\ ~value.nan /\ ~value.neg /\ value.frac = 0 ->
            NumTok(value.v)
      [] value.t = "string" -> StrTok(value.v)
      [] value.t \in {"null", "undefined"} -> Word("null")

\* lines 36-81: step 3 from token i on; acc collects the replaced text and
\* the missingVars, replacedVars and missingEnrichSteps lists
RECURSIVE SubstituteFrom(_, _, _, _, _)
SubstituteFrom(e, i, steps, enrichConfig, acc) ==
    IF i > Len(e) THEN acc
    ELSE IF VarAt(e, i)
    THEN LET end == (RunEnd(e, i + 3) + 1)
             match == SubSeq(e, i, end)
             parts == SplitPath(SubSeq(e, i + 3, end - 1), "")
             nav == Navigate(steps, parts)
             \* lines 54-61: the hint for a disabled enrich step
             hint ==
                 IF parts[1] = "vt_hash" /\ ~enrichConfig.vt_hash
                 THEN <<"VirusTotal Hash lookup">>
                 ELSE IF parts[1] = "vt_url" /\ ~enrichConfig.vt_url
                 THEN <<"VirusTotal URL reputation">>
                 ELSE IF parts[1] = "abuseipdb" /\ ~enrichConfig.abuseipdb_geoip
                 THEN <<"AbuseIPDB / GeoIP">>
                 ELSE <<>>
         IN  IF nav.found
             THEN SubstituteFrom(e, end + 1, steps, enrichConfig,
                    [acc EXCEPT !.evaluated = Append(@, ValueText(nav.v)),
                                !.replacedVars = Append(@, match)])
             ELSE SubstituteFrom(e, end + 1, steps, enrichConfig,
                    [acc EXCEPT !.evaluated = Append(@, Word("null")),
                                !.missingVars = Append(@, match),
                                !.missingEnrichSteps =
                                    @ \o hint])
    ELSE SubstituteFrom(e, i + 1, steps, enrichConfig,
                        [acc EXCEPT !.evaluated = Append(@, e[i])])

\* line 84: evaluated.match(/\$\{steps\.[\w.]+\}/g), from token i on
RECURSIVE RemainingVarsFrom(_, _)
RemainingVarsFrom(e, i) ==
    IF i > Len(e) THEN <<>>
    ELSE IF VarAt(e, i)
    THEN <<SubSeq(e, i, (RunEnd(e, i + 3) + 1))>> \o RemainingVarsFrom(e, (RunEnd(e, i + 3) + 1) + 1)
    ELSE RemainingVarsFrom(e, i + 1)

(***************************************************************************)
(* Line 106: Function(`"use strict"; return (${evaluated})`)() on the      *)
(* substituted text: literals, ||, &&, ==, >=, > and parentheses.  A text  *)
(* that does not parse is a SyntaxError whatever its operands; a name that *)
(* is no literal is a ReferenceError when it is evaluated.                 *)
(***************************************************************************)
\* the tokens that are not white space
RECURSIVE Code(_)
Code(e) ==
    IF e = <<>> THEN <<>>
    ELSE IF Head(e).k = "ws" THEN Code(Tail(e))
    ELSE <<Head(e)>> \o Code(Tail(e))

\* the nesting depth of parentheses before token i
ParenDepth(e, i) ==
    Cardinality({j \in 1..(i - 1) : e[j] = Sym("(")})
        - Cardinality({j \in 1..(i - 1) : e[j] = Sym(")")})

\* the positions of the operators ops outside all parentheses
TopLevel(e, ops) ==
    {i \in 1..Len(e) : e[i].k = "sym" /\ e[i].s \in ops /\ ParenDepth(e, i) = 0}

\* ToNumber for the operands of == and >=
ToNumber(x) ==
    CASE x.t = "number" -> x
      [] x.t = "boolean" -> Num(IF x.v THEN 1 ELSE 0)
      [] x.t = "null" -> Num(0)
      [] x.t = "undefined" -> NaN
      [] x.t = "string" ->
            LET cs == Chars(x.v)
            IN  IF TrimIsEmpty(cs) THEN Num(0)
                ELSE IF \A i \in 1..Len(cs) : cs[i] \in Digits
                THEN Num(DigitsValue(cs, 0))
                ELSE NaN

\* a == b
LooseEq(a, b) ==
    IF a.t = b.t THEN StrictEq(a, b)
    ELSE IF a.t \in {"null", "undefined"} \/ b.t \in {"null", "undefined"}
    THEN a.t \in {"null", "undefined"} /\ b.t \in {"null", "undefined"}
    ELSE StrictEq(ToNumber(a), ToNumber(b))

Ok(v) == [st |-> "ok", v |-> v]

\* a thrown SyntaxError or ReferenceError
Thrown(name) == [st |-> name]

\* a binary operator on two evaluated operands
Binary(op, l, r) ==
    IF l.st = "SyntaxError" \/ r.st = "SyntaxError" THEN Thrown("SyntaxError")
    ELSE IF l.st = "ReferenceError" THEN Thrown("ReferenceError")
    ELSE IF op = "||" THEN (IF Truthy(l.v) THEN l ELSE r)
    ELSE IF op = "&&" THEN (IF Truthy(l.v) THEN r ELSE l)
    ELSE IF r.st = "ReferenceError" THEN Thrown("ReferenceError")
    ELSE IF op = "==" THEN Ok(Bool(LooseEq(l.v, r.v)))
    \* a >= b and a > b, a and b not both strings
    ELSE IF op = ">=" THEN Ok(Bool(NumGe(ToNumber(l.v), ToNumber(r.v))))
    ELSE Ok(Bool(NumGt(ToNumber(l.v), ToNumber(r.v))))

\* the value of the code tokens e, run as the body of a Function (line 106),
\* whose free names are the properties of the global object globals;
\* operators bind as in JavaScript: || weakest, then &&, then ==, then >=
\* and >, all to the left
RECURSIVE Eval(_, _)
Eval(e, globals) ==
    LET balanced ==
            /\ ParenDepth(e, Len(e) + 1) = 0
            /\ \A i \in 1..Len(e) : ParenDepth(e, i + 1) >= 0
        \* a literal, a property of the global object, or a name that is
        \* not defined
        primary(tok) ==
            CASE tok.k = "num" -> Ok(Num(tok.n))
              [] tok.k = "str" -> Ok(Str(tok.s))
              [] tok = Word("true") -> Ok(Bool(TRUE))
              [] tok = Word("false") -> Ok(Bool(FALSE))
              [] tok = Word("null") -> Ok(Null)
              [] tok.k = "word" ->
                    IF tok.s \in DOMAIN globals.v THEN Ok(globals.v[tok.s])
                    ELSE Thrown("ReferenceError")
              [] OTHER -> Thrown("SyntaxError")
    IN
    IF e = <<>> \/ ~balanced THEN Thrown("SyntaxError")
    ELSE LET split(ops) ==
                LET at == TopLevel(e, ops)
                    i == CHOOSE x \in at : \A y \in at : y <= x
                IN  Binary(e[i].s, Eval(SubSeq(e, 1, i - 1), globals),
                           Eval(SubSeq(e, i + 1, Len(e)), globals))
         IN  IF TopLevel(e, {"||"}) # {} THEN split({"||"})
             ELSE IF TopLevel(e, {"&&"}) # {} THEN split({"&&"})
             ELSE IF TopLevel(e, {"=="}) # {} THEN split({"=="})
             ELSE IF TopLevel(e, {">=", ">"}) # {} THEN split({">=", ">"})
             ELSE IF Len(e) >= 2 /\ e[1] = Sym("(") /\ e[Len(e)] = Sym(")")
             THEN Eval(SubSeq(e, 2, Len(e) - 1), globals)
             ELSE IF Len(e) = 1 THEN primary(e[1])
             ELSE Thrown("SyntaxError")

\* lines 114-120: the failure result of a thrown error
Failure(kind, names, hints) ==
    [success |-> FALSE, error |-> [kind |-> kind, vars |-> names, hints |-> hints]]

\* lines 11-121; globals is the global object of the page at the call
evaluateExpressionUnified(expression, steps, enrichConfig, globals) ==
    IF expression = <<>> THEN Failure("Expression must be a non-empty string", <<>>, <<>>)
    ELSE
    LET sub == SubstituteFrom(NormalizeBare(StripWrapper(Trim(expression))), 1,
                              steps, enrichConfig,
                              [evaluated |-> <<>>, missingVars |-> <<>>,
                               replacedVars |-> <<>>, missingEnrichSteps |-> <<>>])
        \* line 84, searched in the text after the substitution
        remainingVars == RemainingVarsFrom(sub.evaluated, 1)
        bareStepsMatch == BareStepsMatches(sub.evaluated)
        result == Eval(<<Sym("(")>> \o Code(sub.evaluated) \o <<Sym(")")>>,
                       globals)
    IN  IF Len(remainingVars) > 0
        THEN Failure("Unresolved variables found", remainingVars,
                     sub.missingEnrichSteps)
        ELSE IF bareStepsMatch # {}
        THEN Failure("Invalid variable format", <<>>, <<>>)
        ELSE IF result.st # "ok"
        THEN Failure("Expression evaluation failed", <<>>, <<>>)
        ELSE [success |-> TRUE, result |-> result.v,
              evaluated |-> sub.evaluated,
              missingVars |-> sub.missingVars,
              replacedVars |-> sub.replacedVars]

(***************************************************************************)
(* Calls.  Each function of the core is called from the idle state on an   *)
(* input of its bounded domain; Return forgets the call.                   *)
(***************************************************************************)
Init == pc = "idle" /\ call = [fn |-> "none"] /\ ret = [threw |-> FALSE]

Return ==
    /\ pc = "done"
    /\ pc' = "idle" /\ call' = [fn |-> "none"] /\ ret' = [threw |-> FALSE]

Done(fn) == pc = "done" /\ call.fn = fn

\* a key with this value is left out of the object built by MkObj
Absent == [t |-> "absent"]

MkObj(f) == Obj([k \in {x \in DOMAIN f : f[x] # Absent} |-> f[k]])

(***************************************************************************)
(* Alert payloads handed to the normalizer.                                *)
(***************************************************************************)
Payloads ==
    LET EventCountValues ==
            {Absent, Null, Frac(TRUE, 0, 5), Str("abc"), Str("12abc"), Str("7"),
             Str("")}
            \cup {Num(n) : n \in -MaxCount..MaxCount}
        PayloadRecords ==
            {MkObj([event_count |-> ec, count |-> c, events |-> e, severity |-> sv,
                    type |-> Str("Brute Force")]) :
                ec \in EventCountValues,
                c \in {Absent, Num(MaxCount)},
                e \in {Absent, Num(2)},
                sv \in {Absent, Str("High"), Str(" "), Num(3)}}
    IN
    PayloadRecords \cup {MkObj([result |-> r]) : r \in PayloadRecords}
    \cup {Null, Undef}

CallNormalize ==
    /\ pc = "idle"
    /\ \E p \in Payloads :
          /\ call' = [fn |-> "normalizeSplunkAlert", alertJson |-> p]
          /\ ret' = normalizeSplunkAlert(p)
    /\ pc' = "done"

NextNormalize == CallNormalize \/ Return

SpecNormalize == Init /\ [][NextNormalize]_vars

\* the normalizer returned a canonical alert for an object payload
Normalized == Done("normalizeSplunkAlert") /\ ~ret.threw

\* the record the fields are read from, and whether it has key k
PayloadData == DataOf(call.alertJson)

PayloadHas(k) == k \in DOMAIN PayloadData.v

NonNumericString(s) ==
    \E i \in 1..Len(s) : s[i] \notin (Digits \cup {"-", "+", ".", " "})

\* C7: a payload whose event_count is negative or non-numeric normalizes to
\* event_count = 1.
C7_NegativeOrNonNumericGivesOne ==
    (/\ Normalized
     /\ PayloadHas("event_count")
     /\ LET ec == PayloadData.v.event_count
        IN  \/ (ec.t = "number" /\ NumLtZero(ec))
            \/ (IsStr(ec) /\ NonNumericString(Chars(ec.v))))
        => ret.v.v.event_count = Num(1)

\* C11: normalizeSplunkAlert never throws: for every payload, null, undefined
\* and a payload whose severity is a number included, it returns an alert.
C11_NeverThrows ==
    Done("normalizeSplunkAlert") => ~ret.threw

\* C28: a payload whose event_count is a non-negative integer, 0 included,
\* normalizes to that same event_count.
C28_NonNegativeCountIsKept ==
    (/\ Normalized
     /\ PayloadHas("event_count")
     /\ PayloadData.v.event_count \in {Num(n) : n \in 0..MaxCount})
        => ret.v.v.event_count = PayloadData.v.event_count

(***************************************************************************)
(* Alerts and rule files handed to the rule evaluators.  The alerts are    *)
(* what the normalizer returns, as in PlaybookPage.handleSubmitJson.       *)
(***************************************************************************)
Alerts ==
    LET AlertPayloads ==
            {MkObj([result |-> MkObj([type |-> ty, severity |-> sv,
                                      event_count |-> Num(n),
                                      src_ip |-> ip, hostname |-> h])]) :
                ty \in {Absent, Str("Brute Force")},
                sv \in {Absent, Str("High")},
                n \in {1, MaxCount},
                ip \in {Absent, Str("203.0.113.45")},
                h \in {Absent, Str("PC-01")}}
    IN  {normalizeSplunkAlert(p).v : p \in AlertPayloads}

\* the rules a rule file is written from, of both dialects
RulePool ==
    LET
        Cond(f, op, v) == MkObj([field |-> Str(f), operator |-> Str(op), value |-> v])
        SeverityIsHigh == Cond("severity", "equals", Str("High"))
        CountAbove2 == Cond("alert.event_count", "greater_than", Num(2))
        TypeHasForce == Cond("alert.type", "contains", Str("Force"))
        BlockIp == MkObj([action |-> Str("firewall.block_ip"),
                          params |-> MkObj([ip |-> Str("src_ip")])])
        BlockIpField == MkObj([action |-> Str("firewall_block_ip"),
                               params |-> MkObj([ip_field |-> Str("src_ip")])])
        IsolateHost == MkObj([isolate_host |-> MkObj([params |->
                                MkObj([host_field |-> Str("hostname")])])])
        Notify == Str("notify")
        \* Dialect A rules: conditions.all / conditions.any + actions
        RulesA ==
            {MkObj([name |-> Str("high_volume"),
                    conditions |-> MkObj([all |-> Arr(<<SeverityIsHigh, CountAbove2>>)]),
                    actions |-> Arr(<<BlockIp, Notify>>)]),
             MkObj([name |-> Str("high_or_force"),
                    conditions |-> MkObj([any |-> Arr(<<SeverityIsHigh, TypeHasForce>>)]),
                    actions |-> Arr(<<IsolateHost>>)]),
             MkObj([name |-> Str("empty_all"),
                    conditions |-> MkObj([all |-> Arr(<<>>)]),
                    actions |-> Arr(<<Notify>>)]),
             MkObj([name |-> Str("all_and_any"),
                    conditions |-> MkObj([all |-> Arr(<<SeverityIsHigh>>),
                                          any |-> Arr(<<TypeHasForce>>)]),
                    actions |-> Arr(<<BlockIp, BlockIpField>>)]),
             MkObj([name |-> Str("no_conditions"),
                    conditions |-> EmptyObj,
                    actions |-> Arr(<<Notify, BlockIp>>)])}
        \* Dialect B rules: if + then
        RulesB ==
            {MkObj([name |-> Str("block_high"),
                    if |-> MkObj([severity |-> Str("High")]),
                    then |-> Arr(<<BlockIpField>>)]),
             MkObj([name |-> Str("brute_force"),
                    if |-> MkObj([type |-> Str("Brute Force"),
                                  event_count_greater_than |-> Num(MaxCount - 1)]),
                    then |-> Arr(<<IsolateHost, BlockIpField>>)]),
             MkObj([name |-> Str("many_events"),
                    if |-> MkObj([severity_equals |-> Str("Medium"),
                                  count_greater_than |-> Num(MaxCount)]),
                    then |-> Arr(<<Notify, BlockIpField>>)]),
             MkObj([name |-> Str("always"),
                    if |-> EmptyObj,
                    then |-> Arr(<<Notify, BlockIp>>)])}
    IN  RulesA \cup RulesB

\* rule files of at most MaxRules rules
RuleFiles == UNION {[1..n -> RulePool] : n \in 0..MaxRules}

CallEvaluateRulesConditions ==
    /\ pc = "idle"
    /\ \E a \in Alerts, rs \in RuleFiles :
          /\ call' = [fn |-> "evaluateRulesConditions", normalized |-> a, rules |-> rs]
          /\ ret' = [threw |-> FALSE, v |-> evaluateRulesConditions(a, rs)]
    /\ pc' = "done"

CallEvaluateRules ==
    /\ pc = "idle"
    /\ \E a \in Alerts, rs \in RuleFiles :
          /\ call' = [fn |-> "evaluateRules", normalized |-> a, rules |-> rs]
          /\ ret' = [threw |-> FALSE, v |-> evaluateRules(a, rs)]
    /\ pc' = "done"

NextRules == CallEvaluateRulesConditions \/ CallEvaluateRules \/ Return

SpecRules == Init /\ [][NextRules]_vars

\* conditions.all is an empty list and conditions.any is absent
EmptyAllNoAny(rule) ==
    /\ "conditions" \in DOMAIN rule.v
    /\ "all" \in DOMAIN rule.v.conditions.v
    /\ rule.v.conditions.v.all = Arr(<<>>)
    /\ "any" \notin DOMAIN rule.v.conditions.v

InSeq(x, xs) == \E i \in 1..Len(xs) : xs[i] = x

\* C2: a Dialect A rule with an empty conditions.all and no conditions.any
\* never matches: it is not in matches and has no 'Matched rule' line.
C2_EmptyAllNeverMatches ==
    Done("evaluateRulesConditions") =>
        \A i \in 1..Len(call.rules) :
            EmptyAllNoAny(call.rules[i]) =>
                /\ ~InSeq(call.rules[i], ret.v.matches)
                /\ ~InSeq(MatchedLine(call.rules[i]), ret.v.logs)

\* the rules of the file the called evaluator matches, and their positions
CalledMatch(rule) ==
    IF call.fn = "evaluateRules" THEN MatchedIf(rule, call.normalized)
    ELSE MatchedConditions(rule, call.normalized)

MatchingPositions == {i \in 1..Len(call.rules) : CalledMatch(call.rules[i])}

\* the action list the called evaluator logs, and the line of its a-th action
CalledActions(rule) ==
    LET as == IF call.fn = "evaluateRules" THEN Get(rule, "then")
              ELSE Get(rule, "actions")
    IN  IF IsArr(as) THEN as.v ELSE <<>>

CalledActionLine(step) ==
    IF call.fn = "evaluateRules" THEN ActionLogIf(step, call.normalized)
    ELSE ActionLogConditions(step, call.normalized)

\* the number of log lines of the matching rules before position i
LinesBefore(i) ==
    LET before == {j \in MatchingPositions : j < i}
        RECURSIVE Sum(_)
        Sum(S) == IF S = {} THEN 0
                  ELSE LET j == CHOOSE x \in S : TRUE
                       IN  1 + Len(CalledActions(call.rules[j])) + Sum(S \ {j})
    IN  Sum(before)

\* C10: logs is, rule by rule in declaration order, the 'Matched rule' line of
\* each matching rule followed by one 'Action executed' line per action in
\* action order; matches is the matching rules in declaration order; with no
\* matching rule logs is the single 'No rule matched.' line.
C10_LogsMirrorRuleOrder ==
    (Done("evaluateRules") \/ Done("evaluateRulesConditions")) =>
        LET logs == ret.v.logs
            matches == ret.v.matches
            n == Len(call.rules)
        IN  /\ Len(matches) = Cardinality(MatchingPositions)
            /\ \A i \in MatchingPositions :
                  matches[Cardinality({j \in MatchingPositions : j <= i})] = call.rules[i]
            /\ IF MatchingPositions = {} THEN logs = <<NoRuleLine>>
               ELSE /\ Len(logs) = LinesBefore(n + 1)
                    /\ \A i \in MatchingPositions :
                          /\ logs[LinesBefore(i) + 1] = MatchedLine(call.rules[i])
                          /\ \A a \in 1..Len(CalledActions(call.rules[i])) :
                                logs[LinesBefore(i) + 1 + a]
                                    = CalledActionLine(CalledActions(call.rules[i])[a])

\* two different rules match, the first with two actions, and every line is logged
C10_Witness ==
    /\ Done("evaluateRulesConditions") \/ Done("evaluateRules")
    /\ Len(ret.v.matches) = 2
    /\ Len(CalledActions(ret.v.matches[1])) = 2
    /\ ret.v.matches[1] # ret.v.matches[2]
    /\ Len(ret.v.logs) = 4 + Len(CalledActions(ret.v.matches[2]))
    /\ ret.v.logs[1].line = "Matched rule"
    /\ ret.v.logs[2].line = "Action executed"

\* a rule of Dialect B: it has an if key
IsDialectB(rule) == "if" \in DOMAIN rule.v

\* every constraint present in rule.if holds of the alert
IfConstraintsHold(rule, normalized) ==
    LET c == rule.v.if.v
        has(k) == k \in DOMAIN c
    IN  /\ has("type") => normalized.v.type = c.type
        /\ has("severity") => normalized.v.severity = c.severity
        /\ has("severity_equals") => normalized.v.severity = c.severity_equals
        /\ has("event_count_greater_than") =>
              NumGt(normalized.v.event_count, c.event_count_greater_than)
        /\ has("count_greater_than") =>
              NumGt(normalized.v.event_count, c.count_greater_than)

MixedRuleFile ==
    \E i, j \in 1..Len(call.rules) :
        IsDialectB(call.rules[i]) /\ ~IsDialectB(call.rules[j])

\* the rule's own action list, and the line its own dialect logs for a step
OwnActions(rule) ==
    LET as == IF IsDialectB(rule) THEN Get(rule, "then") ELSE Get(rule, "actions")
    IN  IF IsArr(as) THEN as.v ELSE <<>>

OwnActionLine(rule, step) ==
    IF IsDialectB(rule) THEN ActionLogIf(step, call.normalized)
    ELSE ActionLogConditions(step, call.normalized)

\* C13: in a rule file that mixes the dialects each rule is decided by its
\* own dialect: a Dialect A rule is in matches iff its condition tree holds,
\* a Dialect B rule iff its if-constraints hold, and the lines of the
\* matched rule's own action list (actions or then) are logged.
C13_EachRuleByItsOwnDialect ==
    ((Done("evaluateRules") \/ Done("evaluateRulesConditions")) /\ MixedRuleFile) =>
        \A i \in 1..Len(call.rules) :
            LET rule == call.rules[i]
                holds == IF IsDialectB(rule)
                         THEN IfConstraintsHold(rule, call.normalized)
                         ELSE MatchedConditions(rule, call.normalized)
            IN  /\ InSeq(rule, ret.v.matches) <=> holds
                /\ holds => \A a \in 1..Len(OwnActions(rule)) :
                               InSeq(OwnActionLine(rule, OwnActions(rule)[a]),
                                     ret.v.logs)

(***************************************************************************)
(* The condition matcher under single conditions, as evaluateRules calls   *)
(* it at lines 21 and 31 of src/unnamed/part_000.                          *)
(***************************************************************************)
\* conditions {field, operator, value}; a condition may have no value key
Conditions ==
    {MkObj([field |-> Str(f), operator |-> Str(op), value |-> v]) :
        f \in {"alert.nope.x", "alert.raw.nope", "alert.raw.result.type",
               "alert.event_count", "severity", "raw"},
        op \in {"equals", "not_equals", "contains", "greater_than", "less_than",
                "greater_than_or_equal", "less_than_or_equal", "matches"},
        v \in {Absent, Null, EmptyObj, Num(2), Str("2.5"), Str("12abc"),
               Str("abc"), Str("High"), Str("Force")}}

CallEvaluateCondition ==
    /\ pc = "idle"
    /\ \E condition \in Conditions, normalized \in Alerts :
          /\ call' = [fn |-> "evaluateCondition", condition |-> condition,
                      normalized |-> normalized]
          /\ ret' = [threw |-> FALSE, v |-> evaluateCondition(condition, normalized)]
    /\ pc' = "done"

NextCondition == CallEvaluateCondition \/ Return

SpecCondition == Init /\ [][NextCondition]_vars

\* the operator of the called condition
CalledOperator == call.condition.v.operator.v

\* the called condition's field is alert.-prefixed and a segment of its
\* path is missing in the alert
MissingSegment ==
    LET field == Chars(call.condition.v.field.v)
    IN  /\ StartsWith(field, Chars("alert."))
        /\ WalkPath(call.normalized,
                    SplitDots(SubSeq(field, Len(Chars("alert.")) + 1, Len(field)),
                              <<>>)) = Undef

\* C14: a condition whose alert.-prefixed field has a missing segment is
\* false for every operator other than not_equals, whatever its value, a
\* condition with no value key included.
C14_MissingSegmentIsFalse ==
    (Done("evaluateCondition") /\ MissingSegment /\ CalledOperator # "not_equals")
        => ret.v = FALSE

\* the alert's value for the field of the called condition
CalledAlertValue ==
    LET field == Chars(call.condition.v.field.v)
    IN  IF StartsWith(field, Chars("alert."))
        THEN WalkPath(call.normalized,
                      SplitDots(SubSeq(field, Len(Chars("alert.")) + 1, Len(field)),
                                <<>>))
        ELSE Get(call.normalized, call.condition.v.field.v)

\* null, undefined, an object, or a string that is no numeral
NotNumeric(x) ==
    \/ x.t \in {"null", "undefined", "object"}
    \/ IsStr(x) /\ (x.v = "" \/ NonNumericString(Chars(x.v)))

\* C15: under greater_than, less_than, greater_than_or_equal and
\* less_than_or_equal a condition is false, and nothing is thrown, when the
\* alert value or the condition value is not numeric.
C15_NonNumericOperandIsFalse ==
    (/\ Done("evaluateCondition")
     /\ CalledOperator \in {"greater_than", "less_than", "greater_than_or_equal",
                            "less_than_or_equal"}
     /\ \/ NotNumeric(CalledAlertValue)
        \/ NotNumeric(Get(call.condition, "value")))
        => (~ret.threw /\ ret.v = FALSE)

\* the name an action step declares, in each of its three shapes
DeclaredName(step) ==
    IF IsStr(step) THEN step
    ELSE IF "action" \in DOMAIN step.v THEN step.v.action
    ELSE Str(CHOOSE k \in DOMAIN step.v : TRUE)

\* C21: for every matched rule and every action step of it, a bare name, an
\* {action, params} object or a single-key object, the 'Action executed'
\* line logged for the step carries the name the step declares, in both
\* evaluators.
C21_ActionLineCarriesDeclaredName ==
    (Done("evaluateRules") \/ Done("evaluateRulesConditions")) =>
        \A i \in MatchingPositions :
            \A a \in 1..Len(CalledActions(call.rules[i])) :
                LET line == ret.v.logs[LinesBefore(i) + 1 + a]
                IN  /\ line.line = "Action executed"
                    /\ line.name = DeclaredName(CalledActions(call.rules[i])[a])

\* the parameters an action step declares
DeclaredParams(step) ==
    IF IsStr(step) THEN EmptyObj
    ELSE IF "action" \in DOMAIN step.v THEN Get(step, "params")
    ELSE Get(Get(step, DeclaredName(step).v), "params")

\* the value a block-IP or isolate-host step is to be logged with: the
\* alert's value of the field the step declares, or else src_ip / machine
ResolvedParam(step, normalized) ==
    LET params == DeclaredParams(step)
        blockIp == DeclaredName(step).v \in {"firewall.block_ip", "firewall_block_ip"}
        field == IF blockIp
                 THEN FirstTruthy(<<Get(params, "ip"), Get(params, "ip_field")>>, Undef)
                 ELSE Get(params, "host_field")
        fallback == Get(normalized, IF blockIp THEN "src_ip" ELSE "machine")
    IN  IF ~IsStr(field) THEN Undef
        ELSE FirstTruthy(<<Get(normalized, field.v)>>, fallback)

\* C22: the log line of a block-IP step (firewall.block_ip or
\* firewall_block_ip) or an isolate-host step (edr_isolate_host or
\* isolate_host) of a matched rule carries the alert's value of the field the
\* step declares, or the alert's src_ip (machine) when that field is absent
\* from the alert and src_ip (machine) is set.
C22_ActionLineCarriesResolvedParam ==
    (Done("evaluateRules") \/ Done("evaluateRulesConditions")) =>
        \A i \in MatchingPositions :
            \A a \in 1..Len(CalledActions(call.rules[i])) :
                LET step == CalledActions(call.rules[i])[a]
                    line == ret.v.logs[LinesBefore(i) + 1 + a]
                    value == ResolvedParam(step, call.normalized)
                IN  (/\ DeclaredName(step).v \in
                            {"firewall.block_ip", "firewall_block_ip",
                             "edr_isolate_host", "isolate_host"}
                     /\ Truthy(value))
                    => ("param" \in DOMAIN line /\ line.param = value)

\* the conditions of conditions.any of a rule, when it has that list
AnyConditions(rule) ==
    LET any == Get(Get(rule, "conditions"), "any")
    IN  IF IsArr(any) THEN any.v ELSE <<>>

\* C26: a Dialect A rule with conditions.any matches only if one of its
\* any-conditions is true, also when it has conditions.all as well.
C26_AnyPresentNeedsOneTrue ==
    Done("evaluateRulesConditions") =>
        \A i \in 1..Len(call.rules) :
            (/\ IsArr(Get(Get(call.rules[i], "conditions"), "any"))
             /\ InSeq(call.rules[i], ret.v.matches))
            => \E c \in 1..Len(AnyConditions(call.rules[i])) :
                   evaluateCondition(AnyConditions(call.rules[i])[c],
                                     call.normalized)

(***************************************************************************)
(* Playbook configurations handed to the instance generator.               *)
(***************************************************************************)
\* lists of at most MaxActions builder actions
ActionLists ==
    LET ActionItems ==
            {[id |-> "a1", action |-> "mail.quarantine", input |-> <<>>],
             [id |-> "a3", action |-> "notify.email",
              input |-> << <<"to", "soc@example.com">>,
                           <<"message", "Suspicious mail">> >>],
             [id |-> "a4", action |-> "custom.webhook",
              input |-> << <<"url", "${alert.result.urls}">> >>],
             [id |-> "a5", action |-> "firewall.block_ip",
              input |-> << <<"ip", "203.0.113.45">> >>],
             [id |-> "a6", action |-> "identity.suspend_user", input |-> <<>>]}
    IN  UNION {[1..n -> ActionItems] : n \in 0..MaxActions}

Configs ==
    [name : {"", "Phishing triage"},
     collect : [sender : {"", "${alert.result.sender}"},
                recipient : {""},
                subject : {""},
                urls : {"${alert.result.urls}"},
                attachment_hashes : {""},
                src_ip : {"${alert.result.src_ip}"}],
     enrich : [vt_hash : BOOLEAN, vt_url : BOOLEAN, abuseipdb_geoip : BOOLEAN],
     condition : [expression : {"${steps.vt_url.max_score >= 70}"}],
     \* the two branches hold at most MaxActions + 1 actions together
     actions : {a \in [trueActions : ActionLists, falseActions : ActionLists] :
                   Len(a.trueActions) + Len(a.falseActions) <= MaxActions + 1}]

CallGenerateInstanceYaml ==
    /\ pc = "idle"
    /\ \E config \in Configs :
          /\ call' = [fn |-> "generateInstanceYaml", config |-> config]
          /\ ret' = [threw |-> FALSE, yamlStructure |-> InstanceStructure(config),
                      v |-> generateInstanceYaml(config)]
    /\ pc' = "done"

NextInstance == CallGenerateInstanceYaml \/ Return

SpecInstance == Init /\ [][NextInstance]_vars

\* the steps of the built instance, their ids, and the step with a given id
BuiltSteps == ret.yamlStructure.v.steps.v

BuiltIds == [i \in 1..Len(BuiltSteps) |-> Get(BuiltSteps[i], "id")]

\* the enabled enrich step ids in the fixed order vt_hash, vt_url, abuseipdb
EnabledEnrichIds ==
    (IF call.config.enrich.vt_hash THEN <<Str("vt_hash")>> ELSE <<>>)
    \o (IF call.config.enrich.vt_url THEN <<Str("vt_url")>> ELSE <<>>)
    \o (IF call.config.enrich.abuseipdb_geoip THEN <<Str("abuseipdb")>> ELSE <<>>)

\* C8: with all three enrich flags disabled the instance has exactly the 4
\* steps collect, evaluate, high, low in that order and collect.next is the
\* scalar "evaluate".
C8_NoEnrichFourSteps ==
    (Done("generateInstanceYaml") /\ EnabledEnrichIds = <<>>) =>
        /\ BuiltIds = <<Str("collect"), Str("evaluate"), Str("high"), Str("low")>>
        /\ Get(BuiltSteps[1], "next") = Str("evaluate")

C8_Witness ==
    /\ Done("generateInstanceYaml")
    /\ EnabledEnrichIds = <<>>
    /\ Len(call.config.actions.trueActions) > 0
    /\ call.config.actions.falseActions = <<>>
    /\ Len(BuiltSteps) = 4

C16_SingleEnrichScalarNext ==
    (Done("generateInstanceYaml") /\ Len(EnabledEnrichIds) = 1) =>
        Get(BuiltSteps[1], "next") = EnabledEnrichIds[1]

\* the positions of the built steps of one of the given types
StepsOfType(types) ==
    {i \in 1..Len(BuiltSteps) : Get(BuiltSteps[i], "type") \in types}

\* the ids a built step names as a successor
NamedIds(step) ==
    LET next == Get(step, "next")
    IN  (IF IsArr(next) THEN {next.v[i] : i \in 1..Len(next.v)}
         ELSE IF IsStr(next) THEN {next} ELSE {})
        \cup ({Get(step, "true_next"), Get(step, "false_next")} \ {Undef})

\* C23: the built step list has exactly one collect_normalize step, the
\* first; at most three enrich steps after it; exactly one condition step,
\* after all enrich steps, with true_next high and false_next low; an
\* action_group step with id high and one with id low; and every id named by
\* next, true_next or false_next is the id of a step of the list.
C23_StepListIsClosed ==
    Done("generateInstanceYaml") =>
        LET enrich == StepsOfType({Str("vt_hash_lookup"), Str("vt_url_reputation"),
                                   Str("abuseipdb_lookup")})
            condition == StepsOfType({Str("condition")})
            groups == StepsOfType({Str("action_group")})
        IN  /\ StepsOfType({Str("collect_normalize")}) = {1}
            /\ Cardinality(enrich) = Len(EnabledEnrichIds)
            /\ Cardinality(enrich) <= 3
            /\ Cardinality(condition) = 1
            /\ \A c \in condition :
                  /\ \A e \in enrich : 1 < e /\ e < c
                  /\ Get(BuiltSteps[c], "true_next") = Str("high")
                  /\ Get(BuiltSteps[c], "false_next") = Str("low")
            /\ \E g \in groups : Get(BuiltSteps[g], "id") = Str("high")
            /\ \E g \in groups : Get(BuiltSteps[g], "id") = Str("low")
            /\ \A i \in 1..Len(BuiltSteps) :
                  \A id \in NamedIds(BuiltSteps[i]) : InSeq(id, BuiltIds)

\* all three enrich steps are built and the list is closed
C23_Witness ==
    /\ Done("generateInstanceYaml")
    /\ Len(EnabledEnrichIds) = 3
    /\ Len(BuiltSteps) = 7
    /\ NamedIds(BuiltSteps[1]) = {Str("vt_hash"), Str("vt_url"), Str("abuseipdb")}
    /\ NamedIds(BuiltSteps[5]) = {Str("high"), Str("low")}
    /\ BuiltIds[7] = Str("low")

\* the input map an action of the builder is to be emitted with
ExpectedInput(action) ==
    CASE action.action = "mail.quarantine" ->
            [message_id |-> Str("${alert.alert_id}")]
      [] action.action = "identity.suspend_user" ->
            [user |-> Str("${steps.collect.sender}")]
      [] action.action = "firewall.block_ip" ->
            [ip |-> Str("${steps.collect.src_ip}")]
      [] OTHER ->
            [k \in {action.input[i][1] : i \in 1..Len(action.input)} |->
                Str((CHOOSE p \in {action.input[i] : i \in 1..Len(action.input)} :
                        p[1] = k)[2])]

\* the actions emitted in the action group with the given id
EmittedActions(id) ==
    LET g == CHOOSE i \in 1..Len(BuiltSteps) : BuiltIds[i] = Str(id)
    IN  Get(Get(BuiltSteps[g], "params"), "actions").v

\* C24: each action of trueActions / falseActions is emitted, in the high /
\* low group, with the input of its type: message_id for mail.quarantine,
\* user for identity.suspend_user, ip for firewall.block_ip, each with its
\* canonical ${...} value, and the builder-supplied input map for every other
\* action; both groups map alike.
C24_InputFromDeclaredType ==
    Done("generateInstanceYaml") =>
        \A g \in {<<"high", call.config.actions.trueActions>>,
                  <<"low", call.config.actions.falseActions>>} :
            /\ Len(EmittedActions(g[1])) = Len(g[2])
            /\ \A i \in 1..Len(g[2]) :
                  /\ Get(EmittedActions(g[1])[i], "action") = Str(g[2][i].action)
                  /\ Get(EmittedActions(g[1])[i], "input").v = ExpectedInput(g[2][i])

\* a recognized action with a builder-supplied input in the high group and
\* an unrecognized one in the low group
C24_Witness ==
    /\ Done("generateInstanceYaml")
    /\ Len(call.config.actions.trueActions) = 1
    /\ call.config.actions.trueActions[1].action = "firewall.block_ip"
    /\ Get(EmittedActions("high")[1], "input").v = [ip |-> Str("${steps.collect.src_ip}")]
    /\ Len(call.config.actions.falseActions) = 1
    /\ call.config.actions.falseActions[1].action = "custom.webhook"
    /\ Get(EmittedActions("low")[1], "input").v = [url |-> Str("${alert.result.urls}")]

\* C27: in the emitted text the keys of a map are indented deeper than the
\* key the map is under, also inside an item of the steps array: in the
\* collect step mapping: is deeper than params:, and the first key of the
\* mapping is deeper than mapping:.
C27_NestingReadableFromIndent ==
    Done("generateInstanceYaml") =>
        \A l \in 1..(Len(ret.v) - 2) :
            (ret.v[l].body = <<"params", ":">> /\ ret.v[l + 1].body = <<"mapping", ":">>)
            => /\ ret.v[l + 1].indent > ret.v[l].indent
               /\ ret.v[l + 2].indent > ret.v[l + 1].indent

(***************************************************************************)
(* The expression evaluator under test expressions.                        *)
(*                                                                         *)
(* An expression is written from a shape: one to MaxTerms terms joined by  *)
(* one operator, each term a steps reference (wrapped in ${} or bare) with *)
(* an optional comparison, the terms separated by a blank or a line break  *)
(* (the expression is typed into a textarea), the whole optionally inside  *)
(* one ${} wrapper.  The steps context comes from the mock-results service *)
(* and may hold any of the step objects.                                   *)
(***************************************************************************)
MaxTerms == 2

\* the references are of the Insert Variable list (lines 589-595)
Shapes ==
    LET TermKinds ==
            {[ref |-> <<"vt_hash", "any_malicious">>, cmp |-> "none"],
             [ref |-> <<"vt_hash", "any_malicious">>, cmp |-> "== true"],
             [ref |-> <<"vt_url", "max_score">>, cmp |-> ">= 70"]}
        Terms ==
            {[ref |-> k.ref, cmp |-> k.cmp, wrapped |-> w] :
                k \in TermKinds, w \in BOOLEAN}
        TermLists == UNION {[1..n -> Terms] : n \in 1..MaxTerms}
    IN
    {[terms |-> ts, op |-> op, outer |-> o, sep |-> sep] :
        ts \in TermLists, op \in {"||", "&&"}, o \in BOOLEAN,
        sep \in {" ", "\n"}}

\* the text of a reference
RefText(ref, wrapped) ==
    LET bare == <<Word("steps"), Sym("."), Word(ref[1]), Sym("."), Word(ref[2])>>
    IN  IF wrapped THEN <<Sym("${")>> \o bare \o <<Sym("}")>> ELSE bare

\* the text of a term
TermText(term) ==
    RefText(term.ref, term.wrapped) \o
        (CASE term.cmp = "none" -> <<>>
           [] term.cmp = "== true" -> <<Ws(" "), Sym("=="), Ws(" "), Word("true")>>
           [] term.cmp = ">= 70" -> <<Ws(" "), Sym(">="), Ws(" "), NumTok(70)>>)

\* the terms from the i-th on, joined by the operator
RECURSIVE JoinedFrom(_, _)
JoinedFrom(shape, i) ==
    IF i = Len(shape.terms) THEN TermText(shape.terms[i])
    ELSE TermText(shape.terms[i]) \o <<Ws(shape.sep), Sym(shape.op), Ws(" ")>>
             \o JoinedFrom(shape, i + 1)

\* ${E}
Wrap(e) == <<Sym("${")>> \o e \o <<Sym("}")>>

\* the text of an expression
ExpressionText(shape) ==
    IF shape.outer THEN Wrap(JoinedFrom(shape, 1)) ELSE JoinedFrom(shape, 1)

\* the steps contexts: each step object is there or not
StepsContexts ==
    {MkObj([vt_hash |-> h, vt_url |-> u]) :
        h \in {Absent} \cup {Obj([any_malicious |-> Bool(b)]) : b \in BOOLEAN},
        u \in {Absent} \cup {Obj([max_score |-> Num(n)]) : n \in {40, 70}}}

\* config.enrich (line 559)
EnrichConfigs ==
    {[vt_hash |-> h, vt_url |-> u, abuseipdb_geoip |-> FALSE] :
        h \in BOOLEAN, u \in BOOLEAN}

\* the global object: undefined is a property of every one, debug is one a
\* script of the page may have defined
StandardGlobals == MkObj([undefined |-> Undef])

GlobalObjects ==
    {StandardGlobals,
     MkObj([undefined |-> Undef, debug |-> Bool(TRUE)]),
     MkObj([undefined |-> Undef, debug |-> Num(0)])}

\* expressions that name a global, alone or beside a reference
NameExpressions ==
    LET ref == RefText(<<"vt_hash", "any_malicious">>, TRUE)
        sp == <<Ws(" ")>>
    IN  {<<Word(n)>> : n \in {"debug", "undefined"}}
        \cup {ref \o sp \o <<Sym(op)>> \o sp \o <<Word(n)>> :
                 op \in {"||", "&&", "=="}, n \in {"debug", "undefined"}}

\* line 559: handleTestExpression evaluates the expression of the panel
CallEvaluateExpressionUnified ==
    /\ pc = "idle"
    /\ \E shape \in Shapes, steps \in StepsContexts, enrichConfig \in EnrichConfigs :
          /\ shape.op = "&&" => Len(shape.terms) > 1
          /\ call' = [fn |-> "evaluateExpressionUnified", shape |-> shape,
                      expression |-> ExpressionText(shape), steps |-> steps,
                      enrichConfig |-> enrichConfig, globals |-> StandardGlobals]
          /\ ret' = evaluateExpressionUnified(ExpressionText(shape), steps,
                                              enrichConfig, StandardGlobals)
    /\ pc' = "done"

\* the same call on an expression with a name that is no reference, under
\* the global objects of different pages
CallEvaluateExpressionOfName ==
    /\ pc = "idle"
    /\ \E expression \in NameExpressions, steps \in StepsContexts,
          enrichConfig \in EnrichConfigs, globals \in GlobalObjects :
          /\ call' = [fn |-> "evaluateExpressionUnified",
                      expression |-> expression, steps |-> steps,
                      enrichConfig |-> enrichConfig, globals |-> globals]
          /\ ret' = evaluateExpressionUnified(expression, steps, enrichConfig,
                                              globals)
    /\ pc' = "done"

NextExpr == CallEvaluateExpressionUnified \/ CallEvaluateExpressionOfName \/ Return

SpecExpr == Init /\ [][NextExpr]_vars

\* the call that returned was of the evaluator
Evaluated == Done("evaluateExpressionUnified") /\ "shape" \in DOMAIN call

\* the references of the called expression that the context does not resolve
MissingRefs ==
    {i \in 1..Len(call.shape.terms) :
        ~Navigate(call.steps, call.shape.terms[i].ref).found}

\* the enrich flag of a step id
EnrichFlag(id) == IF id = "abuseipdb" THEN "abuseipdb_geoip" ELSE id

\* the name the diagnostic gives a source
SourceName(id) ==
    CASE id = "vt_hash" -> "VirusTotal Hash lookup"
      [] id = "vt_url" -> "VirusTotal URL reputation"
      [] id = "abuseipdb" -> "AbuseIPDB / GeoIP"

\* C1: an expression with a reference whose path has a missing segment in
\* the steps context fails with the unresolved-variable diagnostic, which
\* lists that reference and, when the enrich flag of the reference's step is
\* off, names the disabled source.
C1_MissingReferenceFails ==
    Evaluated /\ MissingRefs # {} =>
        /\ ~ret.success
        /\ ret.error.kind = "Unresolved variables found"
        /\ \A i \in MissingRefs :
              LET ref == call.shape.terms[i].ref
              IN  /\ InSeq(RefText(ref, TRUE), ret.error.vars)
                  /\ ~call.enrichConfig[EnrichFlag(ref[1])] =>
                        InSeq(SourceName(ref[1]), ret.error.hints)

\* the value of a term once its reference is replaced by its context value
TermValue(term, steps) ==
    LET v == Navigate(steps, term.ref).v
    IN  CASE term.cmp = "none" -> v
          [] term.cmp = "== true" -> Bool(LooseEq(v, Bool(TRUE)))
          [] term.cmp = ">= 70" -> Bool(NumGe(ToNumber(v), Num(70)))

\* the value of the terms from the i-th on, joined by the operator
RECURSIVE ShapeValueFrom(_, _, _)
ShapeValueFrom(shape, steps, i) ==
    LET v == TermValue(shape.terms[i], steps)
    IN  IF i = Len(shape.terms) THEN v
        ELSE IF shape.op = "||"
        THEN (IF Truthy(v) THEN v ELSE ShapeValueFrom(shape, steps, i + 1))
        ELSE (IF Truthy(v) THEN ShapeValueFrom(shape, steps, i + 1) ELSE v)

\* C4: when every reference of the expression resolves in the steps
\* context, the evaluation succeeds and its result is the value of the
\* expression with each reference replaced by its context value.
C4_ResolvedGivesValue ==
    Evaluated /\ MissingRefs = {} =>
        /\ ret.success
        /\ ret.result = ShapeValueFrom(call.shape, call.steps, 1)

\* the called expression is a body of bare references, not wrapped
BareBody ==
    /\ ~call.shape.outer
    /\ \A i \in 1..Len(call.shape.terms) : ~call.shape.terms[i].wrapped

\* C5: an expression body E of bare references and E wrapped as ${E}
\* evaluate, in the same context, to the same success flag and result.
C5_WrapperMakesNoDifference ==
    Evaluated /\ BareBody =>
        LET wrapped == evaluateExpressionUnified(Wrap(call.expression),
                                                 call.steps, call.enrichConfig,
                                                 call.globals)
        IN  /\ wrapped.success = ret.success
            /\ ret.success => wrapped.result = ret.result

\* the called expression names a property of the global object
NamesGlobal ==
    \E i \in 1..Len(call.expression) :
        /\ call.expression[i].k = "word"
        /\ call.expression[i].s \in {"debug", "undefined"}
        /\ (i = 1 \/ call.expression[i - 1] # Sym("."))

\* C19: the outcome of an evaluation is the same under every global object,
\* and an expression that names a global identifier fails (success is false).
C19_OnlyTextAndValuesCount ==
    Done("evaluateExpressionUnified") =>
        /\ \A globals \in GlobalObjects :
              evaluateExpressionUnified(call.expression, call.steps,
                                        call.enrichConfig, globals) = ret
        /\ NamesGlobal => ~ret.success

\* the called expression has a wrapped reference and a bare one
MixedReferences ==
    /\ \E i \in 1..Len(call.shape.terms) : call.shape.terms[i].wrapped
    /\ \E i \in 1..Len(call.shape.terms) : ~call.shape.terms[i].wrapped

\* the text of the called expression with every reference wrapped
AllWrappedText ==
    ExpressionText([call.shape EXCEPT !.terms =
        [i \in 1..Len(call.shape.terms) |->
            [call.shape.terms[i] EXCEPT !.wrapped = TRUE]]])

\* C20: an expression that mixes wrapped and bare references evaluates, in
\* the same context, to the success flag and result of the same expression
\* with every reference wrapped.
C20_MixedEvaluatesAsAllWrapped ==
    Evaluated /\ MixedReferences =>
        LET allWrapped == evaluateExpressionUnified(AllWrappedText, call.steps,
                                                    call.enrichConfig,
                                                    call.globals)
        IN  /\ allWrapped.success = ret.success
            /\ ret.success => allWrapped.result = ret.result

\* the called expression is several wrapped references joined by the
\* operator, with no outer wrapper, that starts and ends with a reference
WrappedReferencesJoined ==
    /\ ~call.shape.outer
    /\ Len(call.shape.terms) > 1
    /\ \A i \in 1..Len(call.shape.terms) : call.shape.terms[i].wrapped
    /\ call.shape.terms[Len(call.shape.terms)].cmp = "none"

\* C25: an expression of several individually wrapped references joined by
\* operators, starting and ending with such a reference, evaluates with
\* success to the value of the expression when all its references resolve.
C25_OnlyEnclosingWrapperStripped ==
    Evaluated /\ WrappedReferencesJoined /\ MissingRefs = {} =>
        /\ ret.success
        /\ ret.result = ShapeValueFrom(call.shape, call.steps, 1)

(***************************************************************************)
(* The dry run of the runbook panel (YamlPreviewPanel.handleDryRun,        *)
(* PlaybookBuilder.tsx lines 1290-1379).  The handler reuses the mock      *)
(* results of the page or awaits those of /api/playbooks/dryrun, evaluates *)
(* the condition on them and writes the execution log.                     *)
(***************************************************************************)
\* lines 1336-1373: the dry-run results once the condition is evaluated
DryRunResults(config, steps, evalResult) ==
    LET \* lines 1337-1342
        conditionResult == IF evalResult.success THEN evalResult.result
                           ELSE Bool(FALSE)
        Of(id, key, dflt) == FirstTruthy(<<Get(Get(steps, id), key)>>, dflt)
        Count(flag) == IF flag THEN 1 ELSE 0
        evaluateStepNum == 2 + Count(config.enrich.vt_hash)
                             + Count(config.enrich.vt_url)
                             + Count(config.enrich.abuseipdb_geoip)
        branch == IF Truthy(conditionResult) THEN "high" ELSE "low"
        branchActions == IF Truthy(conditionResult) THEN config.actions.trueActions
                         ELSE config.actions.falseActions
        executionLog ==
            <<[n |-> 1, step |-> "collect_normalize"]>>
            \o (IF config.enrich.vt_hash
                THEN <<[n |-> 2, step |-> "vt_hash",
                        any_malicious |-> Of("vt_hash", "any_malicious", Bool(FALSE)),
                        max_score |-> Of("vt_hash", "max_score", Num(0))]>>
                ELSE <<>>)
            \o (IF config.enrich.vt_url
                THEN <<[n |-> 2 + Count(config.enrich.vt_hash), step |-> "vt_url",
                        any_malicious |-> Of("vt_url", "any_malicious", Bool(FALSE)),
                        max_score |-> Of("vt_url", "max_score", Num(0))]>>
                ELSE <<>>)
            \o (IF config.enrich.abuseipdb_geoip
                THEN <<[n |-> 2 + Count(config.enrich.vt_hash)
                                + Count(config.enrich.vt_url),
                        step |-> "abuseipdb",
                        score |-> Of("abuseipdb", "score", Num(0))]>>
                ELSE <<>>)
            \o <<[n |-> evaluateStepNum, step |-> "evaluate",
                  result |-> IF Truthy(conditionResult) THEN "TRUE" ELSE "FALSE"]>>
            \o (IF Len(branchActions) > 0
                THEN <<[n |-> evaluateStepNum + 1, step |-> branch,
                        executing |-> Len(branchActions)]>>
                     \o [i \in 1..Len(branchActions) |->
                            [action |-> branchActions[i].action,
                             input |-> branchActions[i].input]]
                ELSE <<>>)
    IN  [steps |-> steps, conditionResult |-> conditionResult,
         branch |-> IF branch = "high" THEN "HIGH" ELSE "LOW",
         executionLog |-> executionLog,
         error |-> IF evalResult.success THEN Null ELSE evalResult.error]

\* the configurations a dry run is started on: a condition of one
\* reference, or none, and at most one action in each branch
DryRunConfigs ==
    [condition : [expression :
        {<<>>} \cup {ExpressionText(shape) : shape \in
            {s \in Shapes : Len(s.terms) = 1 /\ s.op = "||" /\ s.sep = " "}}],
     enrich : EnrichConfigs,
     actions : [trueActions : {<<>>, <<[action |-> "firewall.block_ip",
                                        input |-> << <<"ip", "203.0.113.45">> >>]>>},
                falseActions : {<<>>, <<[action |-> "notify.email",
                                         input |-> << <<"to", "soc@example.com">> >>]>>}]]

\* lines 1290-1304 and 1330-1378: the page has mock results, which are reused
HandleDryRun ==
    /\ pc = "idle"
    /\ \E config \in DryRunConfigs, steps \in StepsContexts :
          /\ call' = [fn |-> "handleDryRun", config |-> config,
                      mockResults |-> Obj([steps |-> steps])]
          /\ ret' = [isRunningDryRun |-> FALSE,
                     dryRunResults |-> DryRunResults(config, steps,
                         evaluateExpressionUnified(config.condition.expression,
                             steps, config.enrich, StandardGlobals))]
    /\ pc' = "done"

\* lines 1290-1315: the page has no mock results; the handler awaits the
\* response of the dry-run service
HandleDryRunFetch ==
    /\ pc = "idle"
    /\ \E config \in DryRunConfigs :
          call' = [fn |-> "handleDryRun", config |-> config, mockResults |-> Null]
    /\ ret' = [isRunningDryRun |-> TRUE, dryRunResults |-> Null]
    /\ pc' = "awaiting"

\* lines 1317-1378: the response arrives, with an error status or with data
DryRunResponse ==
    /\ pc = "awaiting"
    /\ \E ok \in BOOLEAN, data \in {EmptyObj} \cup {Obj([steps |-> s]) : s \in StepsContexts} :
          LET steps == FirstTruthy(<<Get(data, "steps")>>, EmptyObj)
          IN  ret' = [isRunningDryRun |-> FALSE,
                      dryRunResults |->
                          IF ~ok THEN [error |-> "HTTP error"]
                          ELSE DryRunResults(call.config, steps,
                                   evaluateExpressionUnified(
                                       call.config.condition.expression, steps,
                                       call.config.enrich, StandardGlobals))]
    /\ pc' = "done"
    /\ UNCHANGED call

NextDryRun == HandleDryRun \/ HandleDryRunFetch \/ DryRunResponse \/ Return

SpecDryRun == Init /\ [][NextDryRun]_vars

\* the dry run ended with results of an evaluation, which failed
DryRunEvaluationFailed ==
    /\ Done("handleDryRun")
    /\ "steps" \in DOMAIN ret.dryRunResults
    /\ ~evaluateExpressionUnified(call.config.condition.expression,
                                  ret.dryRunResults.steps, call.config.enrich,
                                  StandardGlobals).success

\* C29: when the evaluation of the condition fails in a dry run, the error
\* is in the dry-run results and the execution log has no line of an action
\* branch being executed; the branch is HIGH only when the evaluation
\* succeeded with a truthy result.
C29_FailedEvaluationRunsNoBranch ==
    /\ DryRunEvaluationFailed =>
          /\ ret.dryRunResults.error # Null
          /\ \A i \in 1..Len(ret.dryRunResults.executionLog) :
                /\ "executing" \notin DOMAIN ret.dryRunResults.executionLog[i]
                /\ "action" \notin DOMAIN ret.dryRunResults.executionLog[i]
    /\ (Done("handleDryRun") /\ "branch" \in DOMAIN ret.dryRunResults
        /\ ret.dryRunResults.branch = "HIGH") =>
          LET evalResult == evaluateExpressionUnified(
                                call.config.condition.expression,
                                ret.dryRunResults.steps, call.config.enrich,
                                StandardGlobals)
          IN  evalResult.success /\ Truthy(evalResult.result)

(***************************************************************************)
(* The generator of src/utils/generateYaml.ts.  It chains the enrich steps *)
(* one after the other and emits an action group only for a branch that    *)
(* has actions.  The structure it builds is what it serializes.            *)
(***************************************************************************)
\* generateYaml.ts lines 4-143: yamlStructure
GenerateYamlStructure(config) ==
    LET \* lines 28-71: the ids of the enabled enrich steps
        enrichSteps ==
            (IF config.enrich.vt_hash THEN <<"vt_hash">> ELSE <<>>)
            \o (IF config.enrich.vt_url THEN <<"vt_url">> ELSE <<>>)
            \o (IF config.enrich.abuseipdb_geoip THEN <<"abuseipdb">> ELSE <<>>)
        Provider(id) == IF id = "abuseipdb" THEN "abuseipdb" ELSE "virustotal"
        Kind(id) == CASE id = "vt_hash" -> "hash" [] id = "vt_url" -> "url"
                      [] id = "abuseipdb" -> "geoip"
        \* lines 8-24 and 74-78
        collectStep ==
            Ordered(<< <<"id", Str("collect_normalize")>>,
                       <<"type", Str("collect_normalize")>>,
                       <<"params", Ordered(<< <<"mapping", Ordered(<<
                            <<"sender", Str(config.collect.sender)>>,
                            <<"recipient", Str(config.collect.recipient)>>,
                            <<"subject", Str(config.collect.subject)>>,
                            <<"urls", Str(config.collect.urls)>>,
                            <<"attachment_hashes", Str(config.collect.attachment_hashes)>>,
                            <<"src_ip", Str(config.collect.src_ip)>> >>)>> >>)>>,
                       <<"next", IF Len(enrichSteps) > 0 THEN Str(enrichSteps[1])
                                 ELSE Str("evaluate")>> >>)
        \* lines 29-70 and 81-90
        enrichStep(index) ==
            Ordered(<< <<"id", Str(enrichSteps[index])>>, <<"type", Str("enrich")>>,
                       <<"params", Ordered(<<
                            <<"provider", Str(Provider(enrichSteps[index]))>>,
                            <<"type", Str(Kind(enrichSteps[index]))>> >>)>>,
                       <<"next", IF index < Len(enrichSteps)
                                 THEN Str(enrichSteps[index + 1])
                                 ELSE Str("evaluate")>> >>)
        \* lines 93-103
        evaluateStep ==
            Ordered(<< <<"id", Str("evaluate")>>, <<"type", Str("evaluate")>>,
                       <<"params", Ordered(<< <<"expression",
                                        Str(config.condition.expression)>> >>)>>,
                       <<"true_next", Str("high")>>, <<"false_next", Str("low")>> >>)
        \* lines 106-137: the action group of a branch that has actions
        actionGroup(id, actions) ==
            IF Len(actions) > 0
            THEN <<Ordered(<< <<"id", Str(id)>>, <<"type", Str("action_group")>>,
                     <<"params", Ordered(<< <<"actions",
                        Arr([i \in 1..Len(actions) |->
                            Ordered(<< <<"action", Str(actions[i].action)>>,
                                       <<"params",
                                         Ordered([k \in 1..Len(actions[i].input) |->
                                            <<actions[i].input[k][1],
                                              Str(actions[i].input[k][2])>>])>> >>)])>> >>)>>,
                     <<"next", Null>> >>)>>
            ELSE <<>>
    IN  Ordered(<< <<"name", Str(config.name)>>,
                   <<"steps", Arr(<<collectStep>>
                                  \o [i \in 1..Len(enrichSteps) |-> enrichStep(i)]
                                  \o <<evaluateStep>>
                                  \o actionGroup("high", config.actions.trueActions)
                                  \o actionGroup("low", config.actions.falseActions))>> >>)

CallGenerateYaml ==
    /\ pc = "idle"
    /\ \E config \in Configs :
          /\ call' = [fn |-> "generateYaml", config |-> config]
          /\ ret' = [threw |-> FALSE, yamlStructure |-> GenerateYamlStructure(config)]
    /\ pc' = "done"

NextYaml == CallGenerateYaml \/ Return

SpecYaml == Init /\ [][NextYaml]_vars

\* the ids reached from collect_normalize in at most n next links
RECURSIVE ReachedIn(_)
ReachedIn(n) ==
    IF n = 0 THEN {Str("collect_normalize")}
    ELSE LET before == ReachedIn(n - 1)
         IN  before \cup {Get(BuiltSteps[i], "next") :
                            i \in {j \in 1..Len(BuiltSteps) : BuiltIds[j] \in before}}

\* C30: in the steps generateYaml builds, every id named by a next,
\* true_next or false_next is the id of a built step, and every enabled
\* enrich step is reached from collect_normalize by next links.
C30_GenerateYamlStepsClosed ==
    Done("generateYaml") =>
        /\ \A i \in 1..Len(BuiltSteps) :
              \A id \in NamedIds(BuiltSteps[i]) : InSeq(id, BuiltIds)
        /\ \A e \in 1..Len(EnabledEnrichIds) :
              EnabledEnrichIds[e] \in ReachedIn(Len(BuiltSteps))

(***************************************************************************)
(* The anonymizer under the instances the generator serializes             *)
(* (PlaybookTemplateWindowWithYaml, lines 1247-1254).                      *)
(***************************************************************************)
TemplateConfigs ==
    [name : {"Phishing triage"},
     collect : [sender : {"", "${alert.result.sender}", "attacker@evil.com"},
                recipient : {"", "victim@corp.com"},
                subject : {"", "Urgent invoice"},
                urls : {"${alert.result.urls}", "http://evil.com/login"},
                attachment_hashes : {"", "44d88612fea8a8f36de82e1278abb02f"},
                src_ip : {"", "203.0.113.45"}],
     enrich : [vt_hash : {FALSE}, vt_url : BOOLEAN, abuseipdb_geoip : {FALSE}],
     condition : [expression : {"${steps.vt_url.max_score >= 70}"}],
     actions : [trueActions : ActionLists, falseActions : {<<>>}]]

\* lines 1249-1254: the template of the instance generated from config
CallGenerateTemplateYaml ==
    /\ pc = "idle"
    /\ \E config \in TemplateConfigs :
          \E instanceYaml \in {generateInstanceYaml(config)} :
              /\ call' = [fn |-> "generateTemplateYaml", config |-> config,
                          instanceYaml |-> Text(instanceYaml)]
              /\ ret' = [threw |-> FALSE,
                          v |-> generateTemplateYaml(Text(instanceYaml))]
    /\ pc' = "done"

\* the texts of expressions that hold an IOC between ${ and }: the IOC of
\* each kind, after a short text, after a steps. path, or far from the
\* opening ${, and followed closely or not by the closing }
ExpressionPieces ==
    {<<"${", before, ioc, after, "}">> :
        before \in {"v == '", "steps.collect.v == '",
                    "steps.collect.urls != '' && v == '"},
        ioc \in {"attacker@evil.com", "http://evil.com/login", "203.0.113.45",
                 "44d88612fea8a8f36de82e1278abb02f"},
        after \in {"'", "' && enabled == true"}}

\* the instance of a config whose condition.expression has the given text:
\* line 1059 quotes a value that holds ${ and no line break
InstanceWithExpression(pieces) ==
    LET text == generateInstanceYaml(
                    [name |-> "Phishing triage",
                     collect |-> [sender |-> "", recipient |-> "", subject |-> "",
                                  urls |-> "${alert.result.urls}",
                                  attachment_hashes |-> "", src_ip |-> ""],
                     enrich |-> [vt_hash |-> FALSE, vt_url |-> TRUE,
                                 abuseipdb_geoip |-> FALSE],
                     condition |-> [expression |-> "${steps.vt_url.max_score >= 70}"],
                     actions |-> [trueActions |-> <<>>, falseActions |-> <<>>]])
    IN  [l \in 1..Len(text) |->
            IF text[l].body[1] = "expression"
            THEN Line(text[l].indent,
                      <<"expression", ": ", "\"">> \o pieces \o <<"\"">>)
            ELSE text[l]]

\* lines 1249-1254 for a config whose expression holds an IOC
CallGenerateTemplateYamlOfExpression ==
    /\ pc = "idle"
    /\ \E pieces \in ExpressionPieces :
          \E instanceYaml \in {InstanceWithExpression(pieces)} :
              /\ call' = [fn |-> "generateTemplateYaml",
                          instanceYaml |-> Text(instanceYaml)]
              /\ ret' = [threw |-> FALSE,
                          v |-> generateTemplateYaml(Text(instanceYaml))]
    /\ pc' = "done"

\* generateTemplateYaml on an input that is no string
CallGenerateTemplateYamlOfValue ==
    /\ pc = "idle"
    /\ \E instanceYaml \in {Null, Undef, Num(0), Num(7), Bool(FALSE), Bool(TRUE),
                             EmptyObj, Arr(<<>>), Arr(<<Str("abc")>>)} :
          /\ call' = [fn |-> "generateTemplateYaml", instanceYaml |-> instanceYaml]
          /\ ret' = [threw |-> FALSE, v |-> generateTemplateYaml(instanceYaml)]
    /\ pc' = "done"

\* convertToYaml on a value of each kind
CallConvertToYaml ==
    /\ pc = "idle"
    /\ \E obj \in {Null, Undef, Str("abc"), Arr(<<Str("abc")>>),
                    Ordered(<< <<"name", Null>> >>)} :
          /\ call' = [fn |-> "convertToYaml", obj |-> obj]
          /\ ret' = [threw |-> FALSE, v |-> convertToYaml(obj, 0)]
    /\ pc' = "done"

NextTemplate ==
    \/ CallGenerateTemplateYaml
    \/ CallGenerateTemplateYamlOfExpression
    \/ CallGenerateTemplateYamlOfValue
    \/ CallConvertToYaml
    \/ Return

\* the lines of the text generateTemplateYaml was called on
CalledLines ==
    IF call.instanceYaml.t = "text" THEN call.instanceYaml.lines ELSE <<>>

SpecTemplate == Init /\ [][NextTemplate]_vars

\* a known mapping-field line whose value is a plain scalar, no expression
PlainMappingLine(line) ==
    MappingLine(line) /\ ~Includes(FlatLine(line), Chars("${"))

\* C3: every known mapping-field line of the serialized instance whose value
\* is a plain scalar comes out of generateTemplateYaml with the value "",
\* not with an IOC placeholder.
C3_PlainMappingLinesBlanked ==
    Done("generateTemplateYaml") =>
        \A l \in 1..Len(CalledLines) :
            PlainMappingLine(CalledLines[l]) =>
                ret.v[l] = Line(CalledLines[l].indent,
                                <<CalledLines[l].body[1], ": ", "\"", "\"">>)

\* piece p of the line lies between a ${ and the } that closes it
InsideExpressionAt(line, p) ==
    /\ \E o \in 1..(p - 1) :
          line.body[o] = "${" /\ \A k \in (o + 1)..p : line.body[k] # "}"
    /\ \E c \in (p + 1)..Len(line.body) : line.body[c] = "}"

\* C17: generateTemplateYaml leaves every ${...} expression of its input
\* unchanged: no email, URL, IPv4 address or hash between a ${ and its
\* closing } is replaced, however far it is from either.
C17_ExpressionsUntouched ==
    Done("generateTemplateYaml") =>
        \A l \in 1..Len(CalledLines) :
            \A p \in 1..Len(CalledLines[l].body) :
                InsideExpressionAt(CalledLines[l], p) =>
                    ret.v[l].body[p] = CalledLines[l].body[p]

\* C18: generateTemplateYaml returns the empty string, and raises nothing,
\* for every input that is no string (null, undefined, number, boolean,
\* object, array), and convertToYaml does for null and undefined.
C18_NonStringGivesEmpty ==
    /\ (Done("generateTemplateYaml") /\ call.instanceYaml.t # "text")
          => (~ret.threw /\ ret.v = <<>>)
    /\ (Done("convertToYaml") /\ call.obj.t \in {"null", "undefined"})
          => (~ret.threw /\ ret.v = <<>>)

=============================================================================
